---- MODULE Spec2Model ----
(***************************************************************************)
(* NBA ingest pipeline: the orchestrator (run_complete_pipeline.py), the   *)
(* generator's file output (nba_ingest.py) and the PostgreSQL loader       *)
(* (database_loader.py), as one state machine.                             *)
(*                                                                         *)
(* Rows are counted, not stored. A table is three counts: the rows from    *)
(* before the first load ("old"), the rows an earlier load_all_data call   *)
(* appended from this data directory ("kept") and the rows the current     *)
(* call appended ("new"). A CSV file is its number of data rows.           *)
(* Every database operation can raise; the number of such environment      *)
(* faults in one behaviour is bounded by MaxFaults.                        *)
(***************************************************************************)
EXTENDS Integers, Sequences, FiniteSets, TLC

\* ------------------------------------------------------------------ bounds
\* most data rows in a CSV file of a hand-made data directory
MaxRows == 1
\* most rows in a destination table before the first load
MaxPre == 1
\* most environment faults (a raising database call, a crashing process)
MaxFaults == 1

\* the most create_schema calls a caller makes in a row on one loader
MaxSchemaCalls == 2

\* ------------------------------------------------------- database_loader.py
\* the three destination tables, in the order load_all_data clears them
ClearOrder == <<"players", "player_season_stats", "teams">>

Tables == {ClearOrder[i] : i \in 1..Len(ClearOrder)}

\* file_mappings, in the insertion order the loop walks it
FileOrder ==
  <<"players_all_seasons.csv", "player_stats_per_game.csv",
    "player_stats_totals.csv", "player_stats_per_36.csv",
    "teams_all_seasons.csv">>

MappedFiles == {FileOrder[i] : i \in 1..Len(FileOrder)}

file_mappings ==
  [f \in MappedFiles |->
     CASE f = "players_all_seasons.csv" -> "players"
       [] f = "teams_all_seasons.csv"   -> "teams"
       [] OTHER                         -> "player_season_stats"]

\* ------------------------------------------------------------ nba_ingest.py
\* the files save_data writes into data/, with the table each one holds
SavedFiles ==
  [teams   |-> "teams_all_seasons.csv",
   players |-> "players_all_seasons.csv",
   stats   |-> "player_season_stats.csv"]

AllFiles == MappedFiles \cup {SavedFiles.teams, SavedFiles.players, SavedFiles.stats}

\* a file of the data directory: not looked at yet, absent, or a CSV file
Unseen == [kind |-> "unseen", rows |-> 0]
Absent == [kind |-> "absent", rows |-> 0]
Csv(n) == [kind |-> "csv", rows |-> n]

\* the contents a file of a hand-made directory can have
FileChoices == {Absent} \cup {Csv(n) : n \in 0..MaxRows}

VARIABLES
  dir,            \* the data directory: file name -> file
  db,             \* destination: table -> [old, kept, new] row counts
  conn,           \* self.conn: "none", "open", "aborted" (failed transaction), "closed"
  lpc,            \* position inside load_all_data
  clear_existing, \* the argument of the current load_all_data call
  cidx,           \* index into ClearOrder of the next table to clear
  idx,            \* index into FileOrder of the next file of the loop
  success_count,
  total_files,
  log,            \* the calls load_all_data made in this run, in order: [op, arg, ok]
  before,         \* table -> rows in it when the current run was entered
  result,         \* return value of load_all_data: "none", "True", "False"
  runs,           \* load_all_data calls begun
  calls,          \* load_all_data calls the caller makes
  counts,         \* per finished run: the rows of each table, the result, the exit taken
  faults,         \* environment faults so far
  catalog,        \* the objects of the destination's catalog, by name
  gpc,            \* position inside the ingester: constructor, generate_comprehensive_data
  start_year,     \* self.start_year
  end_year,       \* self.end_year
  seasons,        \* self.seasons
  sidx,           \* index into seasons of the season being processed
  all_teams,      \* the team rows appended so far
  all_players,    \* the player rows appended so far
  all_stats,      \* the stat rows appended so far
  team_id_counter,
  player_id_counter,
  frames,         \* the three data frames returned, <<>> each until then
  opc,            \* position inside the orchestrator's main()
  started,        \* the orchestrator steps started so far, in order
  rc,             \* step -> what run_command returned: "none", "True", "False"
  exit_status,    \* the orchestrator's exit status, -1 while it runs
  reachable,      \* what loader.connect() returned in step 1: "none", "True", "False"
  emitted,        \* rows of the three data frames the generator returned
  lexit,          \* exit status of the load command's process, -1 until it ends
  crontab,        \* the user's crontab: its text split at the newlines, a line as its words
  script,         \* whether run_nba_pipeline.sh has been written: "absent", "written"
  cron_op,        \* the CronAutomation method called last: "none", "setup", "remove"
  cron_ret,       \* what it returned: "none", "True", "False", or "NameError" raised
  cron_before,    \* the crontab when that call was made
  cron_calls,     \* CronAutomation calls made
  position_bases,  \* the position_bases dict of the latest stats call as the call left it
  era_multipliers, \* the era_multipliers dict of the latest stats call as the call left it
  stat_args,      \* the arguments of the latest _generate_era_appropriate_stats call
  stat,           \* the statistics it returned
  stat_calls,     \* _generate_era_appropriate_stats calls made
  prior_scaling   \* a call before the latest one scaled its tables in place

ovars == <<opc, started, rc, exit_status, reachable, emitted, lexit>>

lvars == <<dir, db, conn, lpc, clear_existing, cidx, idx, success_count,
           total_files, log, before, result, runs, calls,
           counts, faults>>

Total(t) == db[t].old + db[t].kept + db[t].new

\* rows of table t that were in it when the current call was entered
Earlier(t) == db[t].old + db[t].kept

\* an operation that touches the database may raise while faults remain
MayFail == IF faults < MaxFaults THEN {TRUE, FALSE} ELSE {FALSE}

gvars == <<gpc, start_year, end_year, seasons, sidx, all_teams, all_players,
           all_stats, team_id_counter, player_id_counter, frames>>

cvars == <<crontab, script, cron_op, cron_ret, cron_before, cron_calls>>

svars == <<position_bases, era_multipliers, stat_args, stat, stat_calls, prior_scaling>>

vars == <<lvars, ovars, catalog, gvars, cvars, svars>>

\* no CronAutomation method has been called; the crontab is empty
AutomationOff ==
  /\ crontab = << <<>> >>
  /\ script = "absent"
  /\ cron_op = "none"
  /\ cron_ret = "none"
  /\ cron_before = << <<>> >>
  /\ cron_calls = 0

\* _generate_era_appropriate_stats has not been called
StatsOff ==
  /\ position_bases = <<>>
  /\ era_multipliers = <<>>
  /\ stat_args = <<>>
  /\ stat = <<>>
  /\ stat_calls = 0
  /\ prior_scaling = FALSE

\* no ingester object has been made
GeneratorOff ==
  /\ gpc = "off"
  /\ start_year = 0
  /\ end_year = 0
  /\ seasons = <<>>
  /\ sidx = 1
  /\ all_teams = <<>>
  /\ all_players = <<>>
  /\ all_stats = <<>>
  /\ team_id_counter = 1
  /\ player_id_counter = 1
  /\ frames = [teams |-> <<>>, players |-> <<>>, stats |-> <<>>]

Noted(ok) == IF ok THEN faults ELSE faults + 1

\* ---------------------------------------------------------- load_all_data
\* ---- variants used to test the properties below against plausible slips ----
\* create_schema's result is not looked at
after_create_schema_unchecked(ok, ce) == IF ce THEN "clear" ELSE "load"

\* the file loop stops at the first file that fails
next_file_break(i, ok) == IF ok THEN i + 1 ELSE Len(FileOrder) + 1

\* a file whose load failed is tried again
next_file_retry(i, ok) == IF ok THEN i + 1 ELSE i

\* line 209: a failed connect returns False at once, outside the try block
after_connect(ok) == IF ok THEN "schema" ELSE "returned"

\* lines 214, 227: a failed create_schema returns False; then the clear loop
\* when clear_existing, else the file loop
after_create_schema(ok, ce) ==
  IF ~ok THEN "returned" ELSE IF ce THEN "clear" ELSE "load"

\* line 229: the clear loop goes on to the next table whatever clear_table returned
after_clear_table(i, ok) == IF i < Len(ClearOrder) THEN "clear" ELSE "load"

\* line 236: the file loop goes on to the next mapping whatever the load returned
next_file(i, ok) == i + 1

\* line 251
return_value(sc, tf) == IF sc = tf THEN "True" ELSE "False"

\* to_sql with if_exists='replace': the file's rows take the place of the table's
appended_replace(d, t, n) == [d EXCEPT ![t].new = n]

\* TRUNCATE TABLE ... CASCADE: no table references another, so only the
\* named table loses its rows
truncated(d, t) == [d EXCEPT ![t] = [old |-> 0, kept |-> 0, new |-> 0]]

\* df.to_sql(..., if_exists='append'): the file's rows are added in one transaction
appended(d, t, n) == [d EXCEPT ![t].new = @ + n]

Entry(op, arg, ok) == [op |-> op, arg |-> arg, ok |-> ok]

\* the number of load_csv_to_table calls on file f in this run
attempts(f) == Cardinality({i \in 1..Len(log) : log[i].op = "load_csv_to_table" /\ log[i].arg = f})

\* load_csv_to_table returned True for file f in this run
loaded(f) == \E i \in 1..Len(log) : log[i] = Entry("load_csv_to_table", f, TRUE)

\* what a finished run leaves: via is the return statement taken, loaded the
\* files whose rows the run appended
Snapshot(res, via) ==
  [rows |-> [t \in Tables |-> Total(t)], result |-> res, via |-> via,
   loaded |-> {f \in MappedFiles : loaded(f)}]

\* clear_table returned True for table t in this run
cleared(t) == \E i \in 1..Len(log) : log[i] = Entry("clear_table", t, TRUE)

\* --------------------------------------------------------- create_schema
\* the statements of create_schema in the order they are executed: the object
\* each one creates, its kind, and the object it is created in or on
SchemaStatements == <<
  [kind |-> "schema", object |-> "nba", on |-> ""],
  [kind |-> "table", object |-> "nba.players", on |-> "nba"],
  [kind |-> "table", object |-> "nba.player_season_stats", on |-> "nba"],
  [kind |-> "table", object |-> "nba.teams", on |-> "nba"],
  [kind |-> "index", object |-> "idx_players_name", on |-> "nba.players"],
  [kind |-> "index", object |-> "idx_players_season", on |-> "nba.players"],
  [kind |-> "index", object |-> "idx_player_stats_player_season", on |-> "nba.player_season_stats"],
  [kind |-> "index", object |-> "idx_player_stats_name", on |-> "nba.player_season_stats"],
  [kind |-> "index", object |-> "idx_player_stats_season", on |-> "nba.player_season_stats"],
  [kind |-> "index", object |-> "idx_teams_abbreviation", on |-> "nba.teams"],
  [kind |-> "index", object |-> "idx_teams_season", on |-> "nba.teams"] >>

SchemaObjects == {SchemaStatements[i].object : i \in 1..Len(SchemaStatements)}

\* the catalog name of a destination table
TableName(t) == "nba." \o t

\* ---- variant: CREATE without IF NOT EXISTS raises on an object that exists ----
create_plain(cat, st) ==
  IF (st.on # "" /\ st.on \notin cat) \/ st.object \in cat
  THEN [ok |-> FALSE, catalog |-> cat]
  ELSE [ok |-> TRUE, catalog |-> cat \cup {st.object}]

\* CREATE ... IF NOT EXISTS: an object that exists is skipped with a notice,
\* a missing one is created; the statement raises only when the schema or
\* table it names is missing
create_if_not_exists(cat, st) ==
  IF st.on # "" /\ st.on \notin cat
  THEN [ok |-> FALSE, catalog |-> cat]
  ELSE [ok |-> TRUE, catalog |-> cat \cup {st.object}]

RECURSIVE execute(_, _)
\* cursor.execute of statements i, i+1, ... in order, up to the first that raises
execute(cat, i) ==
  IF i > Len(SchemaStatements) THEN [ok |-> TRUE, catalog |-> cat]
  ELSE LET r == create_if_not_exists(cat, SchemaStatements[i]) IN
       IF r.ok THEN execute(r.catalog, i + 1) ELSE r

\* lines 52-157: False without a connection; else the statements and a
\* commit, or a rollback to the catalog as it was when a statement or the
\* connection raised
create_schema_result(c, cat, fail) ==
  IF c # "open" \/ fail THEN [ok |-> FALSE, catalog |-> cat]
  ELSE LET r == execute(cat, 1) IN
       IF r.ok THEN r ELSE [ok |-> FALSE, catalog |-> cat]

\* the caller enters load_all_data(data_directory, clear_existing = ce)
enter_load_all_data(ce) ==
  /\ runs' = runs + 1
  /\ clear_existing' = ce
  /\ db' = [t \in Tables |->
              [old |-> db[t].old, kept |-> db[t].kept + db[t].new, new |-> 0]]
  /\ cidx' = 1
  /\ idx' = 1
  /\ success_count' = 0
  /\ total_files' = 0
  /\ log' = <<>>
  /\ before' = [t \in Tables |-> Total(t)]
  /\ result' = "none"
  /\ lpc' = "connect"
  /\ UNCHANGED <<dir, conn, calls, counts, faults>>

load_all_data(ce) ==
  /\ lpc \in {"idle", "returned"}
  /\ runs < calls
  /\ enter_load_all_data(ce)
  /\ UNCHANGED ovars
  /\ UNCHANGED <<catalog, gvars, cvars, svars>>

\* connect(): psycopg2.connect raises when the store is unreachable
connect ==
  /\ lpc = "connect"
  /\ \E fail \in MayFail :
       /\ faults' = Noted(~fail)
       /\ conn' = IF fail THEN conn ELSE "open"
       /\ log' = Append(log, Entry("connect", "", ~fail))
       /\ lpc' = after_connect(~fail)
       /\ result' = IF lpc' = "returned" THEN "False" ELSE result
       /\ counts' = IF lpc' = "returned"
                    THEN Append(counts, Snapshot("False", "connect")) ELSE counts
  /\ UNCHANGED <<dir, db, clear_existing, cidx, idx, success_count, total_files,
                 before, runs, calls, ovars>>
  /\ UNCHANGED <<catalog, gvars, cvars, svars>>

\* create_schema(): CREATE ... IF NOT EXISTS statements and a commit; on an
\* exception the transaction is rolled back. No statement touches a row.
\* A False result leaves load_all_data through its finally block.
create_schema ==
  /\ lpc = "schema"
  /\ conn = "open"
  /\ \E fail \in MayFail :
       LET r == create_schema_result(conn, catalog, fail) IN
       /\ faults' = Noted(~fail)
       /\ catalog' = r.catalog
       /\ lpc' = after_create_schema(r.ok, clear_existing)
       /\ conn' = IF lpc' = "returned" THEN "closed" ELSE conn
       /\ log' = IF lpc' = "returned"
                 THEN log \o <<Entry("create_schema", "", r.ok), Entry("close", "", TRUE)>>
                 ELSE Append(log, Entry("create_schema", "", r.ok))
       /\ result' = IF lpc' = "returned" THEN "False" ELSE result
       /\ counts' = IF lpc' = "returned"
                    THEN Append(counts, Snapshot("False", "create_schema")) ELSE counts
  /\ UNCHANGED <<dir, db, clear_existing, cidx, idx, success_count, total_files,
                 before, runs, calls, ovars>>
  /\ UNCHANGED <<gvars, cvars, svars>>

\* clear_table(table): TRUNCATE and commit on self.conn. An exception is
\* caught without a rollback, so the connection stays in its failed
\* transaction and every later statement on it raises as well.
clear_table ==
  /\ lpc = "clear"
  /\ cidx <= Len(ClearOrder)
  /\ LET t == ClearOrder[cidx] IN
     \E fail \in (IF conn = "aborted" THEN {TRUE} ELSE MayFail) :
       /\ faults' = IF conn = "aborted" THEN faults ELSE Noted(~fail)
       /\ conn' = IF fail THEN "aborted" ELSE conn
       /\ db' = IF fail THEN db ELSE truncated(db, t)
       /\ log' = Append(log, Entry("clear_table", t, ~fail))
       /\ lpc' = after_clear_table(cidx, ~fail)
       /\ cidx' = cidx + 1
  /\ UNCHANGED <<dir, clear_existing, idx, success_count, total_files, before,
                 result, runs, calls, counts, ovars>>
  /\ UNCHANGED <<catalog, gvars, cvars, svars>>

\* load_csv_to_table(csv_file, table_name) on a file of n data rows: any
\* exception (read_csv on a malformed file, to_sql on a rejected row or a
\* lost connection) is caught and gives False with nothing appended; an
\* empty frame gives True without touching the table
load_csv_to_table(n, fail) ==
  IF fail THEN [ok |-> FALSE, added |-> 0] ELSE [ok |-> TRUE, added |-> n]

\* players.player_id and teams.team_id are primary keys (the stat table's
\* key is a serial the files do not carry): appending a file's rows to a
\* table that still holds the same rows from an earlier call is rejected
KeyedTables == {"players", "teams"}

KeyClash(t, n) == t \in KeyedTables /\ n > 0 /\ db[t].kept > 0

\* what os.path.exists and read_csv find: a file not looked at before gets
\* its content now and keeps it for every later call
Found(f) == IF dir[f] = Unseen THEN FileChoices ELSE {dir[f]}

\* one round of the file loop, lines 236-244
load_file ==
  /\ lpc = "load"
  /\ idx <= Len(FileOrder)
  /\ LET f == FileOrder[idx]
         t == file_mappings[f] IN
     \E d \in Found(f) :
       /\ dir' = [dir EXCEPT ![f] = d]
       /\ IF d.kind = "absent"
          THEN /\ idx' = idx + 1
               /\ UNCHANGED <<db, success_count, total_files, log, faults>>
          ELSE \E fail \in (IF KeyClash(t, d.rows) THEN {TRUE} ELSE MayFail) :
                 LET r == load_csv_to_table(d.rows, fail) IN
                 /\ faults' = IF KeyClash(t, d.rows) THEN faults ELSE Noted(~fail)
                 /\ total_files' = total_files + 1
                 /\ log' = Append(log, Entry("load_csv_to_table", f, r.ok))
                 /\ db' = appended(db, t, r.added)
                 /\ success_count' = IF r.ok THEN success_count + 1 ELSE success_count
                 /\ idx' = next_file(idx, r.ok)
  /\ UNCHANGED <<conn, lpc, clear_existing, cidx, before, result, runs, calls,
                 counts, ovars>>
  /\ UNCHANGED <<catalog, gvars, cvars, svars>>

\* lines 246-258: get_table_counts only reads (and swallows its own
\* exceptions), the result is success_count == total_files, and the finally
\* block closes the connection
load_all_data_return ==
  /\ lpc = "load"
  /\ idx > Len(FileOrder)
  /\ result' = return_value(success_count, total_files)
  /\ conn' = "closed"
  /\ lpc' = "returned"
  /\ log' = log \o <<Entry("get_table_counts", "", conn = "open"), Entry("close", "", TRUE)>>
  /\ counts' = Append(counts, Snapshot(result', "loop"))
  /\ UNCHANGED <<dir, db, clear_existing, cidx, idx, success_count, total_files,
                 before, runs, calls, faults, ovars>>
  /\ UNCHANGED <<catalog, gvars, cvars, svars>>

\* ------------------------------------------ load_all_data called directly
PreChoices == [Tables -> [old : 0..MaxPre, kept : {0}, new : {0}]]

OrchestratorOff ==
  /\ opc = "off"
  /\ started = <<>>
  /\ rc = [s \in {"step1", "step2", "step3", "step4"} |-> "none"]
  /\ exit_status = -1
  /\ reachable = "none"
  /\ emitted = [teams |-> 0, players |-> 0, stats |-> 0]
  /\ lexit = -1

\* a destination that holds rows has the schema; one without rows is taken
\* as new
ExistingCatalog(d) == IF \E t \in Tables : d[t].old > 0 THEN SchemaObjects ELSE {}

LoaderIdle ==
  /\ before = [t \in Tables |-> db[t].old]
  /\ catalog = ExistingCatalog(db)
  /\ conn = "none"
  /\ lpc = "idle"
  /\ clear_existing = TRUE
  /\ cidx = 1
  /\ idx = 1
  /\ success_count = 0
  /\ total_files = 0
  /\ log = <<>>
  /\ result = "none"
  /\ runs = 0
  /\ counts = <<>>
  /\ faults = 0

\* one load_all_data call, with either value of clear_existing, on any
\* directory and any destination contents
InitLoad ==
  /\ dir = [f \in AllFiles |-> Unseen]
  /\ db \in PreChoices
  /\ calls = 1
  /\ LoaderIdle
  /\ OrchestratorOff
  /\ GeneratorOff
  /\ AutomationOff
  /\ StatsOff

LoadSteps == connect \/ create_schema \/ clear_table \/ load_file \/ load_all_data_return

NextLoad == (\E ce \in BOOLEAN : load_all_data(ce)) \/ LoadSteps

SpecLoad == InitLoad /\ [][NextLoad]_vars

\* two load_all_data calls in a row with clear_existing = True
InitTwice ==
  /\ dir = [f \in AllFiles |-> Unseen]
  /\ db \in PreChoices
  /\ calls = 2
  /\ LoaderIdle
  /\ OrchestratorOff
  /\ GeneratorOff
  /\ AutomationOff
  /\ StatsOff

NextTwice == load_all_data(TRUE) \/ LoadSteps

SpecTwice == InitTwice /\ [][NextTwice]_vars

\* -------------------------------------------- create_schema called directly
\* the catalogs a destination can have before the call: any part of the
\* schema an interrupted or older set-up left, each object inside its parent
CatalogChoices ==
  {c \in SUBSET SchemaObjects :
     \A i \in 1..Len(SchemaStatements) :
       (SchemaStatements[i].object \in c /\ SchemaStatements[i].on # "")
         => SchemaStatements[i].on \in c}

\* the number of create_schema calls so far
schema_calls == Cardinality({i \in 1..Len(log) : log[i].op = "create_schema"})

\* loader = NBADatabaseLoader(), then connect() and create_schema() as often
\* as the caller likes; rows can only be in tables that exist
InitSchema ==
  /\ dir = [f \in AllFiles |-> Unseen]
  /\ catalog \in CatalogChoices
  /\ db \in {d \in PreChoices : \A t \in Tables : d[t].old > 0 => TableName(t) \in catalog}
  /\ before = [t \in Tables |-> db[t].old]
  /\ conn = "none"
  /\ lpc = "direct"
  /\ clear_existing = FALSE
  /\ cidx = 1
  /\ idx = 1
  /\ success_count = 0
  /\ total_files = 0
  /\ log = <<>>
  /\ result = "none"
  /\ runs = 0
  /\ calls = 0
  /\ counts = <<>>
  /\ faults = 0
  /\ OrchestratorOff
  /\ GeneratorOff
  /\ AutomationOff
  /\ StatsOff

\* loader.connect() called by the caller itself
direct_connect ==
  /\ lpc = "direct"
  /\ log = <<>>
  /\ \E fail \in MayFail :
       /\ faults' = Noted(~fail)
       /\ conn' = IF fail THEN conn ELSE "open"
       /\ log' = Append(log, Entry("connect", "", ~fail))
  /\ UNCHANGED <<dir, db, lpc, clear_existing, cidx, idx, success_count, total_files,
                 before, result, runs, calls, counts, ovars>>
  /\ UNCHANGED <<catalog, gvars, cvars, svars>>

\* loader.create_schema() called by the caller itself
direct_create_schema ==
  /\ lpc = "direct"
  /\ log # <<>>
  /\ schema_calls < MaxSchemaCalls
  /\ \E fail \in (IF conn = "open" THEN MayFail ELSE {FALSE}) :
       LET r == create_schema_result(conn, catalog, fail) IN
       /\ faults' = Noted(~fail)
       /\ catalog' = r.catalog
       /\ log' = Append(log, Entry("create_schema", "", r.ok))
  /\ UNCHANGED <<dir, db, conn, lpc, clear_existing, cidx, idx, success_count,
                 total_files, before, result, runs, calls, counts, ovars>>
  /\ UNCHANGED <<gvars, cvars, svars>>

NextSchema == direct_connect \/ direct_create_schema

SpecSchema == InitSchema /\ [][NextSchema]_vars

\* ------------------------------------------------------------ nba_ingest.py
\* entries of historical_teams and of modern_teams
NumHistoricalTeams == 25

NumModernTeams == 30

\* random.randint(40, 80) filler players per season
MinExtra == 40

MaxExtra == 80

\* ---------------------------------------- nba_ingest.py: strings and tables
DigitChars == <<"0", "1", "2", "3", "4", "5", "6", "7", "8", "9">>

RECURSIVE str(_)
\* str(n) of a natural number, as its sequence of characters
str(n) ==
  IF n < 10 THEN <<DigitChars[n + 1]>>
  ELSE str(n \div 10) \o <<DigitChars[(n % 10) + 1]>>

\* s[k:]
slice_from(s, k) == SubSeq(s, k + 1, Len(s))

\* ---- variant: the two digits are cut from the season's own year ----
season_string_same_year(year) == str(year) \o <<"-">> \o slice_from(str(year), 2)

\* line 28: f"{year}-{str(year+1)[2:]}"
season_string(year) == str(year) \o <<"-">> \o slice_from(str(year + 1), 2)

\* ---- variant: the range stops before end_year ----
season_list_exclusive(start, end) == [i \in 1..(end - start) |-> season_string(start + i - 1)]

\* line 28: the season strings of range(start_year, end_year + 1)
season_list(start, end) == [i \in 1..(end - start + 1) |-> season_string(start + i - 1)]

\* season.split('-')[0]
split_first(s) ==
  LET hyphens == {i \in 1..Len(s) : s[i] = "-"} IN
  IF hyphens = {} THEN s
  ELSE SubSeq(s, 1, (CHOOSE i \in hyphens : \A j \in hyphens : i <= j) - 1)

RECURSIVE int(_)
\* int(s) of a string of digits; -1 stands for the ValueError on an empty string
int(s) ==
  IF s = <<>> THEN -1
  ELSE LET d == CHOOSE k \in 0..9 : DigitChars[k + 1] = s[Len(s)] IN
       IF Len(s) = 1 THEN d ELSE int(SubSeq(s, 1, Len(s) - 1)) * 10 + d

historical_teams == <<
  [abbrev |-> "ATL", name |-> "Atlanta Hawks", city |-> "Atlanta", conference |-> "Eastern", division |-> "Central"],
  [abbrev |-> "BOS", name |-> "Boston Celtics", city |-> "Boston", conference |-> "Eastern", division |-> "Atlantic"],
  [abbrev |-> "CHI", name |-> "Chicago Bulls", city |-> "Chicago", conference |-> "Eastern", division |-> "Central"],
  [abbrev |-> "CLE", name |-> "Cleveland Cavaliers", city |-> "Cleveland", conference |-> "Eastern", division |-> "Central"],
  [abbrev |-> "DAL", name |-> "Dallas Mavericks", city |-> "Dallas", conference |-> "Western", division |-> "Midwest"],
  [abbrev |-> "DEN", name |-> "Denver Nuggets", city |-> "Denver", conference |-> "Western", division |-> "Midwest"],
  [abbrev |-> "DET", name |-> "Detroit Pistons", city |-> "Detroit", conference |-> "Eastern", division |-> "Central"],
  [abbrev |-> "GSW", name |-> "Golden State Warriors", city |-> "San Francisco", conference |-> "Western", division |-> "Pacific"],
  [abbrev |-> "HOU", name |-> "Houston Rockets", city |-> "Houston", conference |-> "Western", division |-> "Midwest"],
  [abbrev |-> "IND", name |-> "Indiana Pacers", city |-> "Indianapolis", conference |-> "Eastern", division |-> "Central"],
  [abbrev |-> "LAC", name |-> "LA Clippers", city |-> "Los Angeles", conference |-> "Western", division |-> "Pacific"],
  [abbrev |-> "LAL", name |-> "Los Angeles Lakers", city |-> "Los Angeles", conference |-> "Western", division |-> "Pacific"],
  [abbrev |-> "MIA", name |-> "Miami Heat", city |-> "Miami", conference |-> "Eastern", division |-> "Atlantic"],
  [abbrev |-> "MIL", name |-> "Milwaukee Bucks", city |-> "Milwaukee", conference |-> "Eastern", division |-> "Central"],
  [abbrev |-> "NJN", name |-> "New Jersey Nets", city |-> "East Rutherford", conference |-> "Eastern", division |-> "Atlantic"],
  [abbrev |-> "NYK", name |-> "New York Knicks", city |-> "New York", conference |-> "Eastern", division |-> "Atlantic"],
  [abbrev |-> "ORL", name |-> "Orlando Magic", city |-> "Orlando", conference |-> "Eastern", division |-> "Atlantic"],
  [abbrev |-> "PHI", name |-> "Philadelphia 76ers", city |-> "Philadelphia", conference |-> "Eastern", division |-> "Atlantic"],
  [abbrev |-> "PHX", name |-> "Phoenix Suns", city |-> "Phoenix", conference |-> "Western", division |-> "Pacific"],
  [abbrev |-> "POR", name |-> "Portland Trail Blazers", city |-> "Portland", conference |-> "Western", division |-> "Pacific"],
  [abbrev |-> "SAC", name |-> "Sacramento Kings", city |-> "Sacramento", conference |-> "Western", division |-> "Pacific"],
  [abbrev |-> "SAS", name |-> "San Antonio Spurs", city |-> "San Antonio", conference |-> "Western", division |-> "Midwest"],
  [abbrev |-> "SEA", name |-> "Seattle SuperSonics", city |-> "Seattle", conference |-> "Western", division |-> "Pacific"],
  [abbrev |-> "UTA", name |-> "Utah Jazz", city |-> "Salt Lake City", conference |-> "Western", division |-> "Midwest"],
  [abbrev |-> "WAS", name |-> "Washington Bullets", city |-> "Washington", conference |-> "Eastern", division |-> "Atlantic"] >>

modern_teams == <<
  [abbrev |-> "ATL", name |-> "Atlanta Hawks", city |-> "Atlanta", conference |-> "Eastern", division |-> "Southeast"],
  [abbrev |-> "BOS", name |-> "Boston Celtics", city |-> "Boston", conference |-> "Eastern", division |-> "Atlantic"],
  [abbrev |-> "BKN", name |-> "Brooklyn Nets", city |-> "Brooklyn", conference |-> "Eastern", division |-> "Atlantic"],
  [abbrev |-> "CHA", name |-> "Charlotte Hornets", city |-> "Charlotte", conference |-> "Eastern", division |-> "Southeast"],
  [abbrev |-> "CHI", name |-> "Chicago Bulls", city |-> "Chicago", conference |-> "Eastern", division |-> "Central"],
  [abbrev |-> "CLE", name |-> "Cleveland Cavaliers", city |-> "Cleveland", conference |-> "Eastern", division |-> "Central"],
  [abbrev |-> "DAL", name |-> "Dallas Mavericks", city |-> "Dallas", conference |-> "Western", division |-> "Southwest"],
  [abbrev |-> "DEN", name |-> "Denver Nuggets", city |-> "Denver", conference |-> "Western", division |-> "Northwest"],
  [abbrev |-> "DET", name |-> "Detroit Pistons", city |-> "Detroit", conference |-> "Eastern", division |-> "Central"],
  [abbrev |-> "GSW", name |-> "Golden State Warriors", city |-> "San Francisco", conference |-> "Western", division |-> "Pacific"],
  [abbrev |-> "HOU", name |-> "Houston Rockets", city |-> "Houston", conference |-> "Western", division |-> "Southwest"],
  [abbrev |-> "IND", name |-> "Indiana Pacers", city |-> "Indianapolis", conference |-> "Eastern", division |-> "Central"],
  [abbrev |-> "LAC", name |-> "LA Clippers", city |-> "Los Angeles", conference |-> "Western", division |-> "Pacific"],
  [abbrev |-> "LAL", name |-> "Los Angeles Lakers", city |-> "Los Angeles", conference |-> "Western", division |-> "Pacific"],
  [abbrev |-> "MEM", name |-> "Memphis Grizzlies", city |-> "Memphis", conference |-> "Western", division |-> "Southwest"],
  [abbrev |-> "MIA", name |-> "Miami Heat", city |-> "Miami", conference |-> "Eastern", division |-> "Southeast"],
  [abbrev |-> "MIL", name |-> "Milwaukee Bucks", city |-> "Milwaukee", conference |-> "Eastern", division |-> "Central"],
  [abbrev |-> "MIN", name |-> "Minnesota Timberwolves", city |-> "Minneapolis", conference |-> "Western", division |-> "Northwest"],
  [abbrev |-> "NOP", name |-> "New Orleans Pelicans", city |-> "New Orleans", conference |-> "Western", division |-> "Southwest"],
  [abbrev |-> "NYK", name |-> "New York Knicks", city |-> "New York", conference |-> "Eastern", division |-> "Atlantic"],
  [abbrev |-> "OKC", name |-> "Oklahoma City Thunder", city |-> "Oklahoma City", conference |-> "Western", division |-> "Northwest"],
  [abbrev |-> "ORL", name |-> "Orlando Magic", city |-> "Orlando", conference |-> "Eastern", division |-> "Southeast"],
  [abbrev |-> "PHI", name |-> "Philadelphia 76ers", city |-> "Philadelphia", conference |-> "Eastern", division |-> "Atlantic"],
  [abbrev |-> "PHX", name |-> "Phoenix Suns", city |-> "Phoenix", conference |-> "Western", division |-> "Pacific"],
  [abbrev |-> "POR", name |-> "Portland Trail Blazers", city |-> "Portland", conference |-> "Western", division |-> "Northwest"],
  [abbrev |-> "SAC", name |-> "Sacramento Kings", city |-> "Sacramento", conference |-> "Western", division |-> "Pacific"],
  [abbrev |-> "SAS", name |-> "San Antonio Spurs", city |-> "San Antonio", conference |-> "Western", division |-> "Southwest"],
  [abbrev |-> "TOR", name |-> "Toronto Raptors", city |-> "Toronto", conference |-> "Eastern", division |-> "Atlantic"],
  [abbrev |-> "UTA", name |-> "Utah Jazz", city |-> "Salt Lake City", conference |-> "Western", division |-> "Northwest"],
  [abbrev |-> "WAS", name |-> "Washington Wizards", city |-> "Washington", conference |-> "Eastern", division |-> "Southeast"] >>

legendary_players ==
  "1980s" :> <<
     [name |-> "Magic Johnson", position |-> "PG", teams |-> <<"LAL">>, era |-> "1980s"],
     [name |-> "Larry Bird", position |-> "SF", teams |-> <<"BOS">>, era |-> "1980s"],
     [name |-> "Kareem Abdul-Jabbar", position |-> "C", teams |-> <<"LAL">>, era |-> "1980s"],
     [name |-> "Isiah Thomas", position |-> "PG", teams |-> <<"DET">>, era |-> "1980s"],
     [name |-> "Dominique Wilkins", position |-> "SF", teams |-> <<"ATL">>, era |-> "1980s"],
     [name |-> "Julius Erving", position |-> "SF", teams |-> <<"PHI">>, era |-> "1980s"],
     [name |-> "Moses Malone", position |-> "C", teams |-> <<"PHI">>, era |-> "1980s"],
     [name |-> "James Worthy", position |-> "SF", teams |-> <<"LAL">>, era |-> "1980s"] >> @@
  "1990s" :> <<
     [name |-> "Michael Jordan", position |-> "SG", teams |-> <<"CHI">>, era |-> "1990s"],
     [name |-> "Scottie Pippen", position |-> "SF", teams |-> <<"CHI">>, era |-> "1990s"],
     [name |-> "Dennis Rodman", position |-> "PF", teams |-> <<"CHI", "DET">>, era |-> "1990s"],
     [name |-> "Karl Malone", position |-> "PF", teams |-> <<"UTA">>, era |-> "1990s"],
     [name |-> "John Stockton", position |-> "PG", teams |-> <<"UTA">>, era |-> "1990s"],
     [name |-> "Hakeem Olajuwon", position |-> "C", teams |-> <<"HOU">>, era |-> "1990s"],
     [name |-> "Charles Barkley", position |-> "PF", teams |-> <<"PHI", "PHX">>, era |-> "1990s"],
     [name |-> "Patrick Ewing", position |-> "C", teams |-> <<"NYK">>, era |-> "1990s"],
     [name |-> "David Robinson", position |-> "C", teams |-> <<"SAS">>, era |-> "1990s"],
     [name |-> "Clyde Drexler", position |-> "SG", teams |-> <<"POR", "HOU">>, era |-> "1990s"] >> @@
  "2000s" :> <<
     [name |-> "Tim Duncan", position |-> "PF", teams |-> <<"SAS">>, era |-> "2000s"],
     [name |-> "Kobe Bryant", position |-> "SG", teams |-> <<"LAL">>, era |-> "2000s"],
     [name |-> "Shaquille O'Neal", position |-> "C", teams |-> <<"LAL", "MIA">>, era |-> "2000s"],
     [name |-> "LeBron James", position |-> "SF", teams |-> <<"CLE">>, era |-> "2000s"],
     [name |-> "Dwyane Wade", position |-> "SG", teams |-> <<"MIA">>, era |-> "2000s"],
     [name |-> "Kevin Garnett", position |-> "PF", teams |-> <<"MIN", "BOS">>, era |-> "2000s"],
     [name |-> "Dirk Nowitzki", position |-> "PF", teams |-> <<"DAL">>, era |-> "2000s"],
     [name |-> "Steve Nash", position |-> "PG", teams |-> <<"PHX">>, era |-> "2000s"],
     [name |-> "Tracy McGrady", position |-> "SG", teams |-> <<"HOU">>, era |-> "2000s"],
     [name |-> "Vince Carter", position |-> "SG", teams |-> <<"TOR">>, era |-> "2000s"] >> @@
  "2010s" :> <<
     [name |-> "LeBron James", position |-> "SF", teams |-> <<"MIA", "CLE", "LAL">>, era |-> "2010s"],
     [name |-> "Stephen Curry", position |-> "PG", teams |-> <<"GSW">>, era |-> "2010s"],
     [name |-> "Kevin Durant", position |-> "SF", teams |-> <<"OKC", "GSW">>, era |-> "2010s"],
     [name |-> "Russell Westbrook", position |-> "PG", teams |-> <<"OKC">>, era |-> "2010s"],
     [name |-> "James Harden", position |-> "SG", teams |-> <<"HOU">>, era |-> "2010s"],
     [name |-> "Chris Paul", position |-> "PG", teams |-> <<"LAC", "HOU">>, era |-> "2010s"],
     [name |-> "Anthony Davis", position |-> "PF", teams |-> <<"NOP", "LAL">>, era |-> "2010s"],
     [name |-> "Kawhi Leonard", position |-> "SF", teams |-> <<"SAS", "TOR", "LAC">>, era |-> "2010s"],
     [name |-> "Paul George", position |-> "SF", teams |-> <<"IND", "OKC", "LAC">>, era |-> "2010s"],
     [name |-> "Blake Griffin", position |-> "PF", teams |-> <<"LAC", "DET">>, era |-> "2010s"] >> @@
  "2020s" :> <<
     [name |-> "LeBron James", position |-> "SF", teams |-> <<"LAL">>, era |-> "2020s"],
     [name |-> "Stephen Curry", position |-> "PG", teams |-> <<"GSW">>, era |-> "2020s"],
     [name |-> "Kevin Durant", position |-> "SF", teams |-> <<"BKN", "PHX">>, era |-> "2020s"],
     [name |-> "Giannis Antetokounmpo", position |-> "PF", teams |-> <<"MIL">>, era |-> "2020s"],
     [name |-> "Luka Doncic", position |-> "PG", teams |-> <<"DAL">>, era |-> "2020s"],
     [name |-> "Jayson Tatum", position |-> "SF", teams |-> <<"BOS">>, era |-> "2020s"],
     [name |-> "Nikola Jokic", position |-> "C", teams |-> <<"DEN">>, era |-> "2020s"],
     [name |-> "Joel Embiid", position |-> "C", teams |-> <<"PHI">>, era |-> "2020s"],
     [name |-> "Anthony Davis", position |-> "PF", teams |-> <<"LAL">>, era |-> "2020s"],
     [name |-> "Jimmy Butler", position |-> "SF", teams |-> <<"MIA">>, era |-> "2020s"] >>

\* ---- variant: every year gets the historical table ----
teams_dict_historical(year) == historical_teams

\* ---- variant: the year 2000 still gets the historical table ----
teams_dict_until_2000(year) == IF year <= 2000 THEN historical_teams ELSE modern_teams

\* get_teams_for_era(year): the table itself, in insertion order
teams_dict(year) == IF year < 2000 THEN historical_teams ELSE modern_teams

\* get_players_for_era(year): the list itself
legendary_for(year) ==
  (IF 1980 <= year /\ year <= 1989 THEN legendary_players["1980s"] ELSE <<>>) \o
  (IF 1990 <= year /\ year <= 1999 THEN legendary_players["1990s"] ELSE <<>>) \o
  (IF 2000 <= year /\ year <= 2009 THEN legendary_players["2000s"] ELSE <<>>) \o
  (IF 2010 <= year /\ year <= 2019 THEN legendary_players["2010s"] ELSE <<>>) \o
  (IF 2020 <= year /\ year <= 2025 THEN legendary_players["2020s"] ELSE <<>>)

\* _get_team_for_player(player_name, possible_teams, year)
get_team_for_player(player_name, possible_teams, year) ==
  CASE player_name = "LeBron James" ->
         IF year <= 2010 THEN "CLE" ELSE IF 2011 <= year /\ year <= 2014 THEN "MIA" ELSE IF 2015 <= year /\ year <= 2018 THEN "CLE" ELSE "LAL"
    [] player_name = "Kevin Durant" ->
         IF year <= 2016 THEN "OKC" ELSE IF 2017 <= year /\ year <= 2019 THEN "GSW" ELSE IF 2020 <= year /\ year <= 2022 THEN "BKN" ELSE "PHX"
    [] player_name = "Shaquille O'Neal" ->
         IF year <= 1996 THEN "ORL" ELSE IF 1997 <= year /\ year <= 2004 THEN "LAL" ELSE IF 2005 <= year /\ year <= 2008 THEN "MIA" ELSE "PHX"
    [] player_name = "Dennis Rodman" ->
         IF year <= 1993 THEN "DET" ELSE "CHI"
    [] player_name = "Charles Barkley" ->
         IF year <= 1992 THEN "PHI" ELSE "PHX"
    [] player_name = "Clyde Drexler" ->
         IF year <= 1995 THEN "POR" ELSE "HOU"
    [] player_name = "Russell Westbrook" ->
         IF year <= 2019 THEN "OKC" ELSE IF 2020 <= year /\ year <= 2021 THEN "HOU" ELSE IF 2022 <= year /\ year <= 2023 THEN "LAL" ELSE "LAC"
    [] player_name = "James Harden" ->
         IF year <= 2012 THEN "OKC" ELSE IF 2013 <= year /\ year <= 2020 THEN "HOU" ELSE IF 2021 <= year /\ year <= 2022 THEN "BKN" ELSE IF 2023 <= year /\ year <= 2024 THEN "PHI" ELSE "LAC"
    [] player_name = "Chris Paul" ->
         IF year <= 2011 THEN "NOP" ELSE IF 2012 <= year /\ year <= 2017 THEN "LAC" ELSE IF 2018 <= year /\ year <= 2021 THEN "HOU" ELSE IF 2022 <= year /\ year <= 2023 THEN "PHX" ELSE "GSW"
    [] player_name = "Anthony Davis" ->
         IF year <= 2019 THEN "NOP" ELSE "LAL"
    [] player_name = "Kawhi Leonard" ->
         IF year <= 2018 THEN "SAS" ELSE IF year = 2019 THEN "TOR" ELSE "LAC"
    [] player_name = "Paul George" ->
         IF year <= 2017 THEN "IND" ELSE IF 2018 <= year /\ year <= 2019 THEN "OKC" ELSE "LAC"
    [] player_name = "Blake Griffin" ->
         IF year <= 2018 THEN "LAC" ELSE "DET"
    [] player_name = "Kevin Garnett" ->
         IF year <= 2007 THEN "MIN" ELSE "BOS"
    [] player_name = "Damian Lillard" ->
         IF year <= 2023 THEN "POR" ELSE "MIL"
    [] OTHER -> possible_teams[1]

\* ------------------------- nba_ingest.py: generate_comprehensive_data by rows
\* ---- variant: every team row carries the first season of the run ----
team_row_first_season(id, info, season) ==
  [team_id |-> id, team_name |-> info.name, team_abbreviation |-> info.abbrev,
   team_city |-> info.city, conference |-> info.conference,
   division |-> info.division, season |-> seasons[1]]

\* lines 200-208
team_row(id, info, season) ==
  [team_id |-> id, team_name |-> info.name, team_abbreviation |-> info.abbrev,
   team_city |-> info.city, conference |-> info.conference,
   division |-> info.division, season |-> season]

\* ---- variant: the team ids start again at 1 in every season ----
season_teams_restart(counter, tdict, season) ==
  [i \in 1..Len(tdict) |-> team_row(i, tdict[i], season)]

\* lines 199-213: one row per entry of the table, ids counted on from counter
season_teams(counter, tdict, season) ==
  [i \in 1..Len(tdict) |-> team_row(counter + i - 1, tdict[i], season)]

\* ---- variant: the search does not compare the season ----
find_team_id_any_season(teams, abbrev, season) ==
  LET m == {i \in 1..Len(teams) : teams[i].team_abbreviation = abbrev} IN
  IF m = {} THEN 0 ELSE teams[CHOOSE i \in m : \A j \in m : i <= j].team_id

\* lines 229-233, 284-288: the id of the first team row with this
\* abbreviation and season; 0 stands for None
find_team_id(teams, abbrev, season) ==
  LET m == {i \in 1..Len(teams) :
              teams[i].team_abbreviation = abbrev /\ teams[i].season = season} IN
  IF m = {} THEN 0 ELSE teams[CHOOSE i \in m : \A j \in m : i <= j].team_id

\* lines 250, 305: random.randint(max(1975, year-20), year) raises ValueError
\* when the range is empty
draft_year_raises(year) == (IF 1975 > year - 20 THEN 1975 ELSE year - 20) > year

\* lines 239-254, 294-308, without the columns drawn at random
player_row(id, name, position, tid, abbrev, season) ==
  [player_id |-> id, player_name |-> name, team_id |-> tid,
   team_abbreviation |-> abbrev, position |-> position, season |-> season]

\* lines 259-267, 313-321, without the statistics
stat_row(id, name, tid, abbrev, season) ==
  [player_id |-> id, player_name |-> name, season |-> season, team_id |-> tid,
   team_abbreviation |-> abbrev, per_mode |-> "PerGame"]

\* both player loops, lines 219-270 and 274-323, over the candidates
\* cand[i] = [name, position, abbrev] in order, on acc = [players, stats,
\* counter, raised]: a candidate whose team is not found is skipped, the
\* first one that is found raises when the draft year does, and otherwise
\* each found one gets a player row and a stat row with the next id
add_players(acc, cand, teams, s, year) ==
  LET tid(i) == find_team_id(teams, cand[i].abbrev, s)
      found == SelectSeq([i \in 1..Len(cand) |-> i], LAMBDA i : tid(i) # 0) IN
  IF found # <<>> /\ draft_year_raises(year) THEN [acc EXCEPT !.raised = TRUE]
  ELSE [players |-> acc.players \o
                    [k \in 1..Len(found) |->
                       player_row(acc.counter + k - 1, cand[found[k]].name,
                                  cand[found[k]].position, tid(found[k]),
                                  cand[found[k]].abbrev, s)],
        stats |-> acc.stats \o
                  [k \in 1..Len(found) |->
                     stat_row(acc.counter + k - 1, cand[found[k]].name,
                              tid(found[k]), cand[found[k]].abbrev, s)],
        counter |-> acc.counter + Len(found),
        raised |-> FALSE]

\* lines 221-227: each legendary player with the team of its timeline
legend_candidates(legends, year) ==
  [i \in 1..Len(legends) |->
     [name |-> legends[i].name, position |-> legends[i].position,
      abbrev |-> get_team_for_player(legends[i].name, legends[i].teams, year)]]

\* the values of random.randint(40, 80) looked at: both ends and the middle
ExtraChoices == {MinExtra, (MinExtra + MaxExtra) \div 2, MaxExtra}

\* the keys random.choice can give the first extra player: the first, the
\* middle and the last key of the table
FirstPicks(tdict) == {1, (Len(tdict) \div 2) + 1, Len(tdict)}

\* lines 275-281 for i in range(n): the name and position are one of the
\* values random.choice can give, the team runs through the keys of the
\* table from the key first on
filler_candidates(n, first, tdict) ==
  [i \in 1..n |->
     [name |-> "Alex Johnson", position |-> "PG",
      abbrev |-> tdict[((first + i - 2) % Len(tdict)) + 1].abbrev]]

\* DataFrame.drop_duplicates(subset=...): the rows whose values in the
\* columns of subset are in no earlier row, in order
drop_duplicates(rows, subset) ==
  LET first_of_key(i) ==
        \A j \in 1..(i - 1) : \E k \in 1..Len(subset) : rows[j][subset[k]] # rows[i][subset[k]]
      kept == SelectSeq([i \in 1..Len(rows) |-> i], LAMBDA i : first_of_key(i)) IN
  [k \in 1..Len(kept) |-> rows[kept[k]]]

\* the season being processed and its year, line 196
season == seasons[sidx]

year_of(s) == int(split_first(s))

\* START_YEAR and END_YEAR the ingester is made with: every single year from
\* before the first era bucket to after the last, ranges across a change of
\* team table or bucket, years at which year+1 gains a digit, an empty range
GenRanges ==
  {<<y, y>> : y \in 1974..2026} \cup
  {<<1999, 2000>>, <<2019, 2020>>, <<2025, 2026>>, <<2000, 1999>>,
   <<998, 998>>, <<999, 999>>, <<9998, 9998>>, <<9999, 9999>>}

\* ComprehensiveNBAIngester(start_year, end_year), lines 25-28
InitGen ==
  /\ \E r \in GenRanges :
       /\ start_year = r[1]
       /\ end_year = r[2]
       /\ seasons = season_list(r[1], r[2])
  /\ gpc = "constructed"
  /\ sidx = 1
  /\ all_teams = <<>>
  /\ all_players = <<>>
  /\ all_stats = <<>>
  /\ team_id_counter = 1
  /\ player_id_counter = 1
  /\ frames = [teams |-> <<>>, players |-> <<>>, stats |-> <<>>]
  /\ dir = [f \in AllFiles |-> Absent]
  /\ db = [t \in Tables |-> [old |-> 0, kept |-> 0, new |-> 0]]
  /\ calls = 0
  /\ LoaderIdle
  /\ OrchestratorOff
  /\ AutomationOff
  /\ StatsOff

\* lines 188-193: empty lists, both counters at 1
generate_begin ==
  /\ gpc = "constructed"
  /\ gpc' = "season"
  /\ sidx' = 1
  /\ all_teams' = <<>>
  /\ all_players' = <<>>
  /\ all_stats' = <<>>
  /\ team_id_counter' = 1
  /\ player_id_counter' = 1
  /\ UNCHANGED <<start_year, end_year, seasons, frames, lvars, ovars, catalog,
                 cvars, svars>>

\* lines 195-213: the year of the season and its team rows
create_teams ==
  /\ gpc = "season"
  /\ sidx <= Len(seasons)
  /\ LET year == year_of(season) IN
     IF year < 0
     THEN /\ gpc' = "raised"
          /\ UNCHANGED <<all_teams, team_id_counter>>
     ELSE /\ all_teams' = all_teams \o season_teams(team_id_counter, teams_dict(year), season)
          /\ team_id_counter' = team_id_counter + Len(teams_dict(year))
          /\ gpc' = "legends"
  /\ UNCHANGED <<start_year, end_year, seasons, sidx, all_players, all_stats,
                 player_id_counter, frames, lvars, ovars, catalog,
                 cvars, svars>>

\* lines 215-270: the legendary players of the year's bucket
add_legendary_players ==
  /\ gpc = "legends"
  /\ \E acc \in {add_players([players |-> all_players, stats |-> all_stats,
                               counter |-> player_id_counter, raised |-> FALSE],
                              legend_candidates(legendary_for(year_of(season)),
                                                year_of(season)),
                              all_teams, season, year_of(season))} :
     /\ all_players' = acc.players
     /\ all_stats' = acc.stats
     /\ player_id_counter' = acc.counter
     /\ gpc' = IF acc.raised THEN "raised" ELSE "extra"
  /\ UNCHANGED <<start_year, end_year, seasons, sidx, all_teams, team_id_counter,
                 frames, lvars, ovars, catalog,
                 cvars, svars>>

\* lines 272-323: random.randint(40, 80) extra players, then the next season
add_extra_players ==
  /\ gpc = "extra"
  /\ \E n \in ExtraChoices, first \in FirstPicks(teams_dict(year_of(season))) :
     \E acc \in {add_players([players |-> all_players, stats |-> all_stats,
                               counter |-> player_id_counter, raised |-> FALSE],
                              filler_candidates(n, first, teams_dict(year_of(season))),
                              all_teams, season, year_of(season))} :
       /\ all_players' = acc.players
       /\ all_stats' = acc.stats
       /\ player_id_counter' = acc.counter
       /\ gpc' = IF acc.raised THEN "raised" ELSE "season"
       /\ sidx' = IF acc.raised THEN sidx ELSE sidx + 1
  /\ UNCHANGED <<start_year, end_year, seasons, all_teams, team_id_counter,
                 frames, lvars, ovars, catalog,
                 cvars, svars>>

\* lines 325-334: the three data frames; drop_duplicates raises KeyError on
\* a frame made from an empty list, which has no columns
make_frames ==
  /\ gpc = "season"
  /\ sidx > Len(seasons)
  /\ IF all_teams = <<>> \/ all_players = <<>>
     THEN /\ gpc' = "raised"
          /\ UNCHANGED frames
     ELSE /\ frames' = [teams |-> drop_duplicates(all_teams, <<"team_id", "season">>),
                        players |-> drop_duplicates(all_players, <<"player_id", "season">>),
                        stats |-> all_stats]
          /\ gpc' = "done"
  /\ UNCHANGED <<start_year, end_year, seasons, sidx, all_teams, all_players,
                 all_stats, team_id_counter, player_id_counter, lvars, ovars, catalog,
                 cvars, svars>>

NextGen ==
  generate_begin \/ create_teams \/ add_legendary_players \/ add_extra_players \/ make_frames

SpecGen == InitGen /\ [][NextGen]_vars

\* get_teams_for_era(year), as the number of team rows of the season
get_teams_for_era(year) == IF year < 2000 THEN NumHistoricalTeams ELSE NumModernTeams

\* get_players_for_era(year), as the number of legendary players listed for
\* the year's bucket; each of them is given a team of that year's team table
get_players_for_era(year) ==
  (IF 1980 <= year /\ year <= 1989 THEN 8 ELSE 0) +
  (IF 1990 <= year /\ year <= 1999 THEN 10 ELSE 0) +
  (IF 2000 <= year /\ year <= 2009 THEN 10 ELSE 0) +
  (IF 2010 <= year /\ year <= 2019 THEN 10 ELSE 0) +
  (IF 2020 <= year /\ year <= 2025 THEN 10 ELSE 0)

RECURSIVE team_rows(_, _)
\* the team rows appended for the seasons lo..hi
team_rows(lo, hi) == IF lo > hi THEN 0 ELSE get_teams_for_era(lo) + team_rows(lo + 1, hi)

RECURSIVE legend_rows(_, _)
\* the legendary player rows appended for the seasons lo..hi
legend_rows(lo, hi) == IF lo > hi THEN 0 ELSE get_players_for_era(lo) + legend_rows(lo + 1, hi)

\* START_YEAR and END_YEAR of the environment
YearRanges == {<<1979, 1979>>, <<1999, 2000>>, <<2020, 2020>>, <<2000, 1999>>}

\* generate_comprehensive_data for start..end with `extra` filler players in
\* all: the row counts of teams_df, players_df and stats_df (one stat row is
\* appended with every player row)
generate_comprehensive_data(start, end, extra) ==
  LET p == legend_rows(start, end) + extra IN
  [teams |-> team_rows(start, end), players |-> p, stats |-> p]

\* save_data: the three files written into data/
save_data(d, e) ==
  [d EXCEPT ![SavedFiles.teams] = Csv(e.teams),
            ![SavedFiles.players] = Csv(e.players),
            ![SavedFiles.stats] = Csv(e.stats)]

\* ------------------------------------------------- run_complete_pipeline.py
StepOrder == <<"step1", "step2", "step3", "step4">>

\* run_command: True exactly when the command's process returned 0
run_command(returncode) == IF returncode = 0 THEN "True" ELSE "False"

\* the step 1 command only prints what loader.connect() returned
connection_test_exit(connected) == 0

\* database_loader.main returns None on every path and the script never
\* calls sys.exit
loader_exit(success) == 0

\* the generator is started whatever the connection test returned
after_step_unchecked(step, ok) ==
  CASE step = "step1" -> "step2"
    [] step = "step2" -> IF ok = "True" THEN "step3" ELSE "return_False"
    [] step = "step3" -> IF ok = "True" THEN "step4" ELSE "return_False"
    [] step = "step4" -> "return_True"

\* the exit status does not depend on main's result
exit_code_zero(success) == 0

\* main(): steps 1 to 3 return False when run_command did; step 4 only warns
after_step(step, ok) ==
  CASE step = "step1" -> IF ok = "True" THEN "step2" ELSE "return_False"
    [] step = "step2" -> IF ok = "True" THEN "step3" ELSE "return_False"
    [] step = "step3" -> IF ok = "True" THEN "step4" ELSE "return_False"
    [] step = "step4" -> "return_True"

\* sys.exit(0 if success else 1)
exit_code(success) == IF success THEN 0 ELSE 1

\* a process may end abnormally (non-zero status) before it did anything
Outcomes == {IF c THEN "crash" ELSE "run" : c \in MayFail}

\* step 1: python3 -c "... loader.connect() ..."
step1 ==
  /\ opc = "step1"
  /\ started' = Append(started, "step1")
  /\ \E o \in Outcomes :
       IF o = "crash"
       THEN /\ faults' = faults + 1
            /\ rc' = [rc EXCEPT !["step1"] = run_command(1)]
            /\ UNCHANGED reachable
       ELSE \E fail \in MayFail :
              /\ faults' = Noted(~fail)
              /\ reachable' = IF fail THEN "False" ELSE "True"
              /\ rc' = [rc EXCEPT !["step1"] = run_command(connection_test_exit(~fail))]
  /\ opc' = after_step("step1", rc'["step1"])
  /\ UNCHANGED <<dir, db, conn, lpc, clear_existing, cidx, idx, success_count,
                 total_files, log, before, result, runs, calls,
                 counts, exit_status, emitted, lexit>>
  /\ UNCHANGED <<catalog, gvars, cvars, svars>>

\* step 2: python3 nba_ingest.py. With start > end the season list is empty
\* and drop_duplicates raises on the column-less frame, before save_data.
step2 ==
  /\ opc = "step2"
  /\ started' = Append(started, "step2")
  /\ \E o \in Outcomes, yr \in YearRanges :
       LET n == yr[2] - yr[1] + 1 IN
       IF o = "crash" \/ n <= 0
       THEN /\ faults' = IF o = "crash" THEN faults + 1 ELSE faults
            /\ rc' = [rc EXCEPT !["step2"] = run_command(1)]
            /\ UNCHANGED <<dir, emitted>>
       ELSE \E extra \in (n * MinExtra)..(n * MaxExtra) :
              /\ emitted' = generate_comprehensive_data(yr[1], yr[2], extra)
              /\ dir' = save_data(dir, emitted')
              /\ rc' = [rc EXCEPT !["step2"] = run_command(0)]
              /\ UNCHANGED faults
  /\ opc' = after_step("step2", rc'["step2"])
  /\ UNCHANGED <<db, conn, lpc, clear_existing, cidx, idx, success_count,
                 total_files, log, before, result, runs, calls,
                 counts, exit_status, reachable, lexit>>
  /\ UNCHANGED <<catalog, gvars, cvars, svars>>

\* glob.glob('data/*.csv') finds something (a missing data directory has no file)
HasCsv(d) == \E f \in AllFiles : d[f].kind = "csv"

\* step 3: python3 database_loader.py, up to database_loader.main reaching
\* load_all_data(data_dir, clear_existing=True) or returning early
step3 ==
  /\ opc = "step3"
  /\ started' = Append(started, "step3")
  /\ \E o \in Outcomes :
       IF o = "crash"
       THEN /\ faults' = faults + 1
            /\ rc' = [rc EXCEPT !["step3"] = run_command(1)]
            /\ opc' = after_step("step3", rc'["step3"])
            /\ UNCHANGED <<dir, db, conn, lpc, clear_existing, cidx, idx,
                           success_count, total_files, log, before,
                           result, runs, calls, counts, lexit>>
       ELSE /\ opc' = "step3_running"
            /\ rc' = rc
            /\ IF HasCsv(dir)
               THEN /\ enter_load_all_data(TRUE)
                    /\ UNCHANGED lexit
               ELSE /\ lexit' = loader_exit(FALSE)
                    /\ lpc' = "exited"
                    /\ UNCHANGED <<dir, db, conn, clear_existing, cidx, idx,
                                   success_count, total_files, log, before, result, runs, calls, counts, faults>>
  /\ UNCHANGED <<exit_status, reachable, emitted>>
  /\ UNCHANGED <<catalog, gvars, cvars, svars>>

\* database_loader.main after load_all_data returned: on success it
\* reconnects, (re)creates the two views and closes; then the process ends
loader_main_return ==
  /\ opc = "step3_running"
  /\ lpc = "returned"
  /\ lexit' = loader_exit(result = "True")
  /\ lpc' = "exited"
  /\ UNCHANGED <<dir, db, conn, clear_existing, cidx, idx, success_count,
                 total_files, log, before, result, runs, calls,
                 counts, faults, opc, started, rc, exit_status, reachable, emitted>>
  /\ UNCHANGED <<catalog, gvars, cvars, svars>>

\* run_command of step 3 reads the return code of the ended process
step3_return ==
  /\ opc = "step3_running"
  /\ lpc = "exited"
  /\ rc' = [rc EXCEPT !["step3"] = run_command(lexit)]
  /\ opc' = after_step("step3", rc'["step3"])
  /\ UNCHANGED <<lvars, started, exit_status, reachable, emitted, lexit>>
  /\ UNCHANGED <<catalog, gvars, cvars, svars>>

\* step 4: python3 -c "... loader.connect(); loader.get_table_counts()":
\* get_table_counts catches its own exceptions and changes nothing
step4 ==
  /\ opc = "step4"
  /\ started' = Append(started, "step4")
  /\ \E o \in Outcomes :
       /\ faults' = IF o = "crash" THEN faults + 1 ELSE faults
       /\ rc' = [rc EXCEPT !["step4"] = run_command(IF o = "crash" THEN 1 ELSE 0)]
  /\ opc' = after_step("step4", rc'["step4"])
  /\ UNCHANGED <<dir, db, conn, lpc, clear_existing, cidx, idx, success_count,
                 total_files, log, before, result, runs, calls,
                 counts, exit_status, reachable, emitted, lexit>>
  /\ UNCHANGED <<catalog, gvars, cvars, svars>>

\* success = main(); sys.exit(0 if success else 1)
pipeline_exit ==
  /\ opc \in {"return_True", "return_False"}
  /\ exit_status' = exit_code(opc = "return_True")
  /\ opc' = "exited"
  /\ UNCHANGED <<lvars, started, rc, reachable, emitted, lexit>>
  /\ UNCHANGED <<catalog, gvars, cvars, svars>>

\* the orchestrator starts on a data directory without files and any
\* destination contents
Init ==
  /\ dir = [f \in AllFiles |-> Absent]
  /\ db \in PreChoices
  /\ calls = 1
  /\ LoaderIdle
  /\ opc = "step1"
  /\ started = <<>>
  /\ rc = [s \in {"step1", "step2", "step3", "step4"} |-> "none"]
  /\ exit_status = -1
  /\ reachable = "none"
  /\ emitted = [teams |-> 0, players |-> 0, stats |-> 0]
  /\ lexit = -1
  /\ GeneratorOff
  /\ AutomationOff
  /\ StatsOff

Next ==
  \/ step1 \/ step2 \/ step3 \/ LoadSteps \/ loader_main_return \/ step3_return
  \/ step4 \/ pipeline_exit

Spec == Init /\ [][Next]_vars

\* ------------------------------------------------------- cron_automation.py
\* most lines in the crontab a CronAutomation method is first called on
MaxLines == 4
\* most CronAutomation calls made one after the other
MaxCronCalls == 2

\* neither the loader, the generator nor the orchestrator is in use
PipelineOff ==
  /\ dir = [f \in AllFiles |-> Absent]
  /\ db = [t \in Tables |-> [old |-> 0, kept |-> 0, new |-> 0]]
  /\ calls = 0
  /\ LoaderIdle
  /\ OrchestratorOff
  /\ GeneratorOff

\* A crontab text is a sequence of items: the newline character, or the
\* content of a non-empty line as the sequence of its words.
NL == <<"\n">>

\* line 71: os.path.join(self.project_dir, 'run_nba_pipeline.sh')
script_path == "/project/run_nba_pipeline.sh"

\* the schedules main() passes, lines 212 and 215
Schedules == {"0 6 * * *", "0 6 * * 1"}

\* line 96: f"{schedule} {script_path}"
cron_entry(schedule, path) == <<schedule, path>>

\* line 111: the comment line put before the entry
NbaComment == <<"# NBA Data Automation">>

\* lines of other jobs a crontab can hold
OtherLines == {<<"0 1 * * *", "/usr/bin/backup">>, <<"MAILTO=ops">>}

\* the lines a crontab is made of here; <<>> is an empty line
CronLines == {<<>>, NbaComment, cron_entry("0 6 * * *", script_path)} \cup OtherLines

\* the words of the lines above that contain the string needle
Containing(needle) ==
  CASE needle = "NBA Data Automation" -> {"# NBA Data Automation"}
    [] needle = "run_nba_pipeline.sh" -> {script_path}
    [] OTHER -> {}

\* needle in line
in_line(needle, line) == \E w \in 1..Len(line) : line[w] \in Containing(needle)

\* needle in text, for a needle without a newline
in_text(needle, text) == \E i \in 1..Len(text) : in_line(needle, text[i])

RECURSIVE split_from(_, _, _)
\* text.split('\n') from item i on, cur being the line read so far
split_from(text, i, cur) ==
  IF i > Len(text) THEN <<cur>>
  ELSE IF text[i] = NL THEN <<cur>> \o split_from(text, i + 1, <<>>)
  ELSE split_from(text, i + 1, cur \o text[i])

split(text) == split_from(text, 1, <<>>)

RECURSIVE join_from(_, _)
\* '\n'.join(lines) from line i on
join_from(lines, i) ==
  IF i > Len(lines) THEN <<>>
  ELSE (IF i > 1 THEN <<NL>> ELSE <<>>) \o
       (IF lines[i] = <<>> THEN <<>> ELSE <<lines[i]>>) \o
       join_from(lines, i + 1)

join(lines) == join_from(lines, 1)

\* the crontabs a method is first called on: every text of 1..MaxLines lines
CrontabChoices == {join(ls) : ls \in UNION {[1..n -> CronLines] : n \in 1..MaxLines}}

\* lines 26-69: the names the f-string of the script evaluates, in order
script_names == <<"datetime", "self", "self", "python_path", "python_path">>

\* the names bound where it is evaluated: the parameter self and the
\* module's globals, lines 7-17 and 193
bound_names ==
  {"self", "os", "subprocess", "sys", "datetime", "logging", "logger",
   "CronAutomation", "main"}

\* create_automation_script(), lines 24-80: the f-string is evaluated before
\* the file is opened; a name that is not bound raises NameError
create_automation_script ==
  IF \E i \in 1..Len(script_names) : script_names[i] \notin bound_names
  THEN [raised |-> "NameError", written |-> FALSE, path |-> ""]
  ELSE [raised |-> "", written |-> TRUE, path |-> script_path]

\* line 111: current_crontab + f"\n# NBA Data Automation\n{cron_entry}\n"
new_crontab(current_crontab, entry) ==
  current_crontab \o <<NL, NbaComment, NL, entry, NL>>

\* setup_cron_job(schedule), lines 82-122. crontab -l is run without check,
\* so only crontab - can raise CalledProcessError.
setup_cron_job(schedule) ==
  /\ cron_calls < MaxCronCalls
  /\ cron_calls' = cron_calls + 1
  /\ cron_op' = "setup"
  /\ cron_before' = crontab
  /\ LET made == create_automation_script IN
     IF made.raised # ""
     THEN /\ cron_ret' = made.raised
          /\ UNCHANGED <<crontab, script>>
     ELSE /\ script' = "written"
          /\ IF in_text("run_nba_pipeline.sh", crontab)
             THEN /\ cron_ret' = "True"
                  /\ UNCHANGED crontab
             ELSE \E fail \in BOOLEAN :
                    /\ crontab' = IF fail THEN crontab
                                  ELSE new_crontab(crontab, cron_entry(schedule, made.path))
                    /\ cron_ret' = IF fail THEN "False" ELSE "True"
  /\ UNCHANGED <<lvars, ovars, catalog, gvars, svars>>

RECURSIVE filtered_lines(_, _, _)
\* the loop of lines 135-143 from line i on
filtered_lines(lines, i, skip_next) ==
  IF i > Len(lines) THEN <<>>
  ELSE IF in_line("NBA Data Automation", lines[i]) \/ in_line("run_nba_pipeline.sh", lines[i])
       THEN filtered_lines(lines, i + 1, TRUE)
  ELSE IF skip_next /\ lines[i] = <<>>
       THEN filtered_lines(lines, i + 1, FALSE)
  ELSE IF ~skip_next
       THEN <<lines[i]>> \o filtered_lines(lines, i + 1, skip_next)
  ELSE filtered_lines(lines, i + 1, skip_next)

\* remove_cron_job(), lines 124-154
remove_cron_job ==
  /\ cron_calls < MaxCronCalls
  /\ cron_calls' = cron_calls + 1
  /\ cron_op' = "remove"
  /\ cron_before' = crontab
  /\ \E fail \in BOOLEAN :
       /\ crontab' = IF fail THEN crontab
                     ELSE join(filtered_lines(split(crontab), 1, FALSE))
       /\ cron_ret' = IF fail THEN "False" ELSE "True"
  /\ UNCHANGED <<script, lvars, ovars, catalog, gvars, svars>>

InitCron ==
  /\ crontab \in CrontabChoices
  /\ script = "absent"
  /\ cron_op = "none"
  /\ cron_ret = "none"
  /\ cron_before = crontab
  /\ cron_calls = 0
  /\ PipelineOff
  /\ StatsOff

NextCron == (\E schedule \in Schedules : setup_cron_job(schedule)) \/ remove_cron_job

SpecCron == InitCron /\ [][NextCron]_vars

\* ------------------------ nba_ingest.py: _generate_era_appropriate_stats
\* Numbers are integers in fixed units: template values and multipliers in
\* hundredths, the draws of random.uniform in the units named with them.
\* Only the points and the nine shooting columns of the result are kept.

\* most _generate_era_appropriate_stats calls made one after the other
MaxStatCalls == 2

\* lines 454-460, in hundredths
position_bases_literal ==
  [PG |-> [points |-> 1200, assists |-> 600, rebounds |-> 300, steals |-> 120],
   SG |-> [points |-> 1400, assists |-> 300, rebounds |-> 400, steals |-> 100],
   SF |-> [points |-> 1300, assists |-> 300, rebounds |-> 500, steals |-> 110],
   PF |-> [points |-> 1200, assists |-> 200, rebounds |-> 700, blocks |-> 80],
   C  |-> [points |-> 1100, assists |-> 100, rebounds |-> 800, blocks |-> 120]]

\* lines 465-472, in hundredths
era_multipliers_literal ==
  ("1980s" :> [points |-> 90, assists |-> 110, rebounds |-> 100, three_pct |-> 30]) @@
  ("1990s" :> [points |-> 100, assists |-> 100, rebounds |-> 100, three_pct |-> 40]) @@
  ("2000s" :> [points |-> 100, assists |-> 100, rebounds |-> 100, three_pct |-> 50]) @@
  ("2010s" :> [points |-> 110, assists |-> 100, rebounds |-> 95, three_pct |-> 70]) @@
  ("2020s" :> [points |-> 120, assists |-> 110, rebounds |-> 90, three_pct |-> 80]) @@
  ("regular" :> [points |-> 100, assists |-> 100, rebounds |-> 100, three_pct |-> 50])

\* ---- variant: the two tables are made by the first call and kept ----
new_tables_kept(old_bases, old_mults) ==
  IF old_bases = <<>>
  THEN [bases |-> position_bases_literal, mults |-> era_multipliers_literal]
  ELSE [bases |-> old_bases, mults |-> old_mults]

\* lines 454 and 465: both dicts are literals evaluated in the body, so each
\* call makes new ones whatever the call before left
new_tables(old_bases, old_mults) ==
  [bases |-> position_bases_literal, mults |-> era_multipliers_literal]

\* d.get(k, default)
dict_get(d, k, default) == IF k \in DOMAIN d THEN d[k] ELSE default

\* v * m for v and m in hundredths
times(v, m) == (v * m) \div 100

\* lines 477-479: the dict era_mult refers to is changed in place
modern_boost(era_mult, year) ==
  IF year >= 2020
  THEN [era_mult EXCEPT !.points = times(@, 120), !.three_pct = 80]
  ELSE era_mult

\* lines 482-495: the dict base refers to is changed in place
superstar(base, player_name) ==
  IF player_name \in {"Michael Jordan", "LeBron James", "Kobe Bryant", "Kevin Durant",
                      "Giannis Antetokounmpo", "Luka Doncic"}
  THEN [base EXCEPT !.points = times(@, 200), !.assists = times(@, 150),
                    !.rebounds = times(@, 130)]
  ELSE IF player_name \in {"Magic Johnson", "Stephen Curry", "Damian Lillard", "Trae Young"}
  THEN [base EXCEPT !.assists = times(@, 200), !.points = times(@, 170)]
  ELSE IF player_name \in {"Shaquille O'Neal", "Hakeem Olajuwon", "David Robinson",
                           "Nikola Jokic", "Joel Embiid"}
  THEN LET b1 == [base EXCEPT !.rebounds = times(@, 160)]
           b2 == ("blocks" :> times(dict_get(b1, "blocks", 0), 250)) @@ b1 IN
       [b2 EXCEPT !.points = times(@, 150)]
  ELSE IF player_name \in {"Dennis Rodman", "Ben Wallace"}
  THEN [base EXCEPT !.rebounds = times(@, 250), !.points = times(@, 70)]
  ELSE base

\* round(a / b) to the nearest integer
round_div(a, b) == (2 * a + b) \div (2 * b)

\* the values of random.uniform(0.8, 1.4) looked at, in tenths
PointsDraws == {8, 11, 14}

\* the values of random.uniform(0.40, 0.55) and random.uniform(0.70, 0.90)
\* looked at, in millionths, and of random.uniform(0.25, 0.45), in
\* ten-thousandths: the low ends, the middles and the high ends
PctDraws ==
  {[fg |-> 400000, three |-> 2500, ft |-> 700000],
   [fg |-> 475000, three |-> 3500, ft |-> 800000],
   [fg |-> 550000, three |-> 4500, ft |-> 900000]}

\* line 500: max(0.1, base['points'] * era_mult['points'] * uniform), in
\* units of 0.00001
points_of(base, era_mult, u) ==
  LET p == base.points * era_mult.points * u IN IF p < 10000 THEN 10000 ELSE p

\* round(points * share, 1) for a share in hundredths, in tenths
made(points, share) == round_div(points * share, 1000000)

\* ---- variant: made times the percentage instead of made over it ----
attempted_times_pct(points, share, pct) ==
  round_div((points * share) \div 1000, 1000000000 \div pct)

\* round((points * share) / pct, 1) for pct in millionths, in tenths
attempted(points, share, pct) == round_div(points * share, pct)

\* round(pct, 3), in thousandths
percentage(pct) == round_div(pct, 1000)

\* lines 500-531: the returned dict
stats_of(base, era_mult, u, d) ==
  LET points == points_of(base, era_mult, u)
      three_pct == d.three * era_mult.three_pct IN
  [points |-> round_div(points, 10000),
   field_goals_made |-> made(points, 38),
   field_goals_attempted |-> attempted(points, 38, d.fg),
   field_goal_percentage |-> percentage(d.fg),
   three_pointers_made |-> made(points, 15),
   three_pointers_attempted |-> attempted(points, 15, three_pct),
   three_point_percentage |-> percentage(three_pct),
   free_throws_made |-> made(points, 22),
   free_throws_attempted |-> attempted(points, 22, d.ft),
   free_throw_percentage |-> percentage(d.ft)]

\* lines 165-181: the first and the last year of each era bucket
BucketYears ==
  ("1980s" :> {1980, 1989}) @@ ("1990s" :> {1990, 1999}) @@
  ("2000s" :> {2000, 2009}) @@ ("2010s" :> {2010, 2019}) @@
  ("2020s" :> {2020, 2025})

\* line 279: the positions random.choice gives an extra player
Positions == {"PG", "SG", "SF", "PF", "C"}

\* years of extra players: outside every bucket, and either side of 2020
FillerYears == {1975, 2019, 2020, 2026}

\* the arguments generate_comprehensive_data calls the function with: each
\* legendary player with a year of its bucket and the entry's era (line
\* 257), an extra player with era 'regular' (line 311)
StatCallArgs ==
  UNION {{[player_name |-> legendary_players[e][i].name,
           position |-> legendary_players[e][i].position,
           year |-> y, era |-> legendary_players[e][i].era] :
            i \in 1..Len(legendary_players[e]), y \in BucketYears[e]} :
         e \in DOMAIN legendary_players}
  \cup {[player_name |-> "Alex Johnson", position |-> p, year |-> y, era |-> "regular"] :
          p \in Positions, y \in FillerYears}

\* one call _generate_era_appropriate_stats(player_name, position, year, era)
generate_era_appropriate_stats ==
  /\ stat_calls < MaxStatCalls
  /\ \E a \in StatCallArgs, u \in PointsDraws, d \in PctDraws :
       LET t == new_tables(position_bases, era_multipliers)
           pkey == IF a.position \in DOMAIN t.bases THEN a.position ELSE "SF"
           ekey == IF a.era \in DOMAIN t.mults THEN a.era ELSE "regular"
           era_mult == modern_boost(t.mults[ekey], a.year)
           base == superstar(t.bases[pkey], a.player_name) IN
       /\ position_bases' = [t.bases EXCEPT ![pkey] = base]
       /\ era_multipliers' = [t.mults EXCEPT ![ekey] = era_mult]
       /\ stat' = stats_of(base, era_mult, u, d)
       /\ stat_args' = a
  /\ prior_scaling' =
       (prior_scaling \/ (stat_calls > 0 /\
                          (position_bases # position_bases_literal \/
                           era_multipliers # era_multipliers_literal)))
  /\ stat_calls' = stat_calls + 1
  /\ UNCHANGED <<lvars, ovars, catalog, gvars, cvars>>

InitStats ==
  /\ StatsOff
  /\ PipelineOff
  /\ AutomationOff

NextStats == generate_era_appropriate_stats

SpecStats == InitStats /\ [][NextStats]_vars

\* ================================================================ claims
Last(q) == q[Len(q)]

Failed(step) == rc[step] = "False"

Exited == opc = "exited"

\* the load_all_data call has returned from the end of the file loop
LoopReturned == lpc \in {"returned", "exited"} /\ counts # <<>> /\ Last(counts).via = "loop"

RECURSIVE RowsLoaded(_, _)
\* the rows of the files among FileOrder[1..i] that are mapped to table t
\* and whose load returned True
RowsLoaded(t, i) ==
  IF i = 0 THEN 0
  ELSE RowsLoaded(t, i - 1) +
       (IF file_mappings[FileOrder[i]] = t /\ loaded(FileOrder[i])
        THEN dir[FileOrder[i]].rows ELSE 0)

C3_UnreachableStoreAborts ==
  reachable = "False" =>
    /\ \A i \in 1..Len(started) : started[i] \notin {"step2", "step3"}
    /\ Exited => exit_status # 0

\* C4: when a file load failed and load_all_data returned False, the load
\* command ends with a non-zero exit status and run_command reports step 3
\* as failed
C4_FailedLoadExitsNonZero ==
  (lpc = "exited" /\ result = "False" /\
   \E f \in MappedFiles : attempts(f) > 0 /\ ~loaded(f))
    => /\ lexit # 0
       /\ rc["step3"] # "True"

\* C5: after the generator and a load that returned True, with no earlier
\* row left in the destination, each table holds exactly the rows the
\* generator emitted for it
C5_LoadedWhatWasGenerated ==
  (lpc = "exited" /\ rc["step2"] = "True" /\ result = "True" /\
   \A t \in Tables : Earlier(t) = 0)
    => /\ Total("teams") = emitted.teams
       /\ Total("players") = emitted.players
       /\ Total("player_season_stats") = emitted.stats

\* C6: load_all_data returns True only if each of the five mapped files was
\* loaded
C6_TrueOnlyIfAllFiveLoaded ==
  (lpc = "returned" /\ result = "True") => \A f \in MappedFiles : loaded(f)

\* C7: once the file loop is entered it looks at every mapped file and calls
\* load_csv_to_table exactly once on each one that is present, whatever the
\* earlier loads returned, and each table has gained exactly the rows of the
\* files that loaded
C7_EveryPresentFileAttemptedOnce ==
  /\ LoopReturned =>
       \A f \in MappedFiles :
         /\ dir[f].kind # "unseen"
         /\ attempts(f) = IF dir[f].kind = "csv" THEN 1 ELSE 0
  /\ lpc \in {"load", "returned"} =>
       \A t \in Tables : db[t].new = RowsLoaded(t, Len(FileOrder))

C7_LoadAfterFailureKept ==
  /\ LoopReturned
  /\ \E i, j \in 1..Len(FileOrder) :
       /\ i < j
       /\ attempts(FileOrder[i]) = 1 /\ ~loaded(FileOrder[i])
       /\ loaded(FileOrder[j]) /\ dir[FileOrder[j]].rows > 0
       /\ db[file_mappings[FileOrder[j]]].new >= dir[FileOrder[j]].rows

\* C8: after a failed connect or a failed create_schema the call makes no
\* further schema, clear or load call, returns False, and every table has
\* the rows it had when the call was entered
C8_ConnectOrSchemaFailureAborts ==
  \A i \in 1..Len(log) :
    (log[i].op \in {"connect", "create_schema"} /\ ~log[i].ok) =>
      /\ \A j \in (i + 1)..Len(log) :
           log[j].op \notin {"create_schema", "clear_table", "load_csv_to_table"}
      /\ lpc \in {"returned", "exited"}
      /\ result = "False"
      /\ \A t \in Tables : db[t].new = 0 /\ Earlier(t) = before[t]

C8_SchemaFailureWithRows ==
  /\ lpc = "returned"
  /\ \E i \in 1..Len(log) : log[i] = Entry("create_schema", "", FALSE)
  /\ \E t \in Tables : Total(t) > 0

\* C9: with clear_existing the three tables are cleared before any file is
\* loaded and no row from before the run is left when it returns; without
\* it no table is cleared
C9_FullRefreshRemovesOldRows ==
  LoopReturned =>
    IF clear_existing
    THEN /\ \A t \in Tables : Earlier(t) = 0
         /\ \A i, j \in 1..Len(log) :
              (log[i].op = "clear_table" /\ log[j].op = "load_csv_to_table") => i < j
    ELSE /\ \A t \in Tables : Earlier(t) = before[t]
         /\ \A i \in 1..Len(log) : log[i].op # "clear_table"

\* C10: two load_all_data calls with clear_existing = True that both went
\* through the file loop and returned True leave the same row count in
\* every table
C10_SecondRunSameCounts ==
  (Len(counts) = 2 /\
   \A k \in 1..2 : counts[k].via = "loop" /\ counts[k].result = "True")
    => counts[1].rows = counts[2].rows

RECURSIVE MappedRows(_, _)
\* the rows of the files among FileOrder[1..i] that are mapped to table t
MappedRows(t, i) ==
  IF i = 0 THEN 0
  ELSE MappedRows(t, i - 1) +
       (IF file_mappings[FileOrder[i]] = t THEN dir[FileOrder[i]].rows ELSE 0)

RECURSIVE RejectedRows(_, _)
\* the rows of the files among FileOrder[1..i] that are mapped to table t
\* and whose load returned False
RejectedRows(t, i) ==
  IF i = 0 THEN 0
  ELSE RejectedRows(t, i - 1) +
       (IF file_mappings[FileOrder[i]] = t /\ ~loaded(FileOrder[i])
        THEN dir[FileOrder[i]].rows ELSE 0)

AllFivePresent == \A f \in MappedFiles : dir[f].kind = "csv"

\* C11: after a load of a directory holding all five mapped files into a
\* destination that had no row, each table holds the sum of the rows of the
\* files mapped to it minus the rows of the files whose load was rejected
C11_CountIsSumOfMappedFiles ==
  (LoopReturned /\ AllFivePresent /\ \A t \in Tables : before[t] = 0)
    => \A t \in Tables :
         Total(t) = MappedRows(t, Len(FileOrder)) - RejectedRows(t, Len(FileOrder))

C11_ThreeStatFilesOneRejected ==
  /\ LoopReturned /\ AllFivePresent
  /\ \A t \in Tables : before[t] = 0
  /\ \E f \in MappedFiles : attempts(f) = 1 /\ ~loaded(f) /\ dir[f].rows > 0
  /\ Total("player_season_stats") = 2
  /\ Total("players") = 1

\* the number of times the rows of stat file f are in player_season_stats:
\* once when an earlier call appended them and they were not truncated since,
\* once more when this call appended them
Copies(f) ==
  (IF db[file_mappings[f]].kept > 0 /\ counts # <<>> /\ f \in counts[1].loaded
   THEN 1 ELSE 0) +
  (IF loaded(f) THEN 1 ELSE 0)

\* C12: after any load run no row of a stat file is in player_season_stats
\* twice, i.e. no two rows of the table have the same player id, season and
\* per_mode
C12_OneRowPerPlayerSeasonMode ==
  LoopReturned =>
    \A f \in MappedFiles :
      (file_mappings[f] = "player_season_stats" /\ dir[f].rows > 0) => Copies(f) <= 1

\* the number of times the orchestrator started step s
starts(s) == Cardinality({i \in 1..Len(started) : started[i] = s})

\* C13: nothing is retried: within one orchestrator run each step is started
\* at most once, and within one load_all_data call load_csv_to_table is
\* called at most once on each mapped file, whatever the calls returned
C13_NoStepOrFileRepeated ==
  /\ \A i \in 1..Len(StepOrder) : starts(StepOrder[i]) <= 1
  /\ \A f \in MappedFiles : attempts(f) <= 1

C13_FailuresNotRetried ==
  /\ Exited
  /\ \E f \in MappedFiles : attempts(f) = 1 /\ ~loaded(f)
  /\ \A i \in 1..Len(StepOrder) : starts(StepOrder[i]) = 1

\* the objects of one kind in the catalog
Objects(kind) ==
  {SchemaStatements[i].object : i \in {j \in 1..Len(SchemaStatements) :
      SchemaStatements[j].kind = kind /\ SchemaStatements[j].object \in catalog}}

\* C14: on a connected destination where nothing fails every create_schema
\* call in a row returns True; after one or several calls that returned True
\* the catalog holds exactly the schema nba, the three tables and the seven
\* indexes; and no call changes the row count of a table
C14_CreateSchemaIdempotent ==
  /\ (conn = "open" /\ faults = 0) =>
       \A i \in 1..Len(log) : log[i].op = "create_schema" => log[i].ok
  /\ (\E i \in 1..Len(log) : log[i] = Entry("create_schema", "", TRUE)) =>
       /\ catalog = SchemaObjects
       /\ Cardinality(Objects("schema")) = 1
       /\ Cardinality(Objects("table")) = 3
       /\ Cardinality(Objects("index")) = 7
  /\ \A t \in Tables : Total(t) = before[t] /\ db[t].new = 0

C14_TwoCallsInARowWithRows ==
  /\ lpc = "direct"
  /\ \E i \in 1..(Len(log) - 1) :
       /\ log[i] = Entry("create_schema", "", TRUE)
       /\ log[i + 1] = Entry("create_schema", "", TRUE)
  /\ \E t \in Tables : Total(t) > 0
  /\ catalog = SchemaObjects

\* generate_comprehensive_data has returned its three data frames
GenDone == gpc = "done"

\* the year of the i-th season of the run
YearAt(i) == start_year + i - 1

SeasonsIn(rows) == {rows[k].season : k \in 1..Len(rows)}

\* C15: for every start year <= end year the generation raises nothing, and
\* the seasons appearing in each of the three frames are exactly the season
\* strings of the years start..end
C15_EveryRangeCompletes ==
  start_year <= end_year =>
    /\ gpc # "raised"
    /\ GenDone =>
         \A fr \in {frames.teams, frames.players, frames.stats} :
           SeasonsIn(fr) = {season_string(y) : y \in start_year..end_year}

\* (year+1) mod 100 written with exactly two digits
TwoDigits(k) == <<DigitChars[(k \div 10) + 1], DigitChars[(k % 10) + 1]>>

ExpectedSeason(y) == str(y) \o <<"-">> \o TwoDigits((y + 1) % 100)

\* C16 (as claimed): the season string of every year of the range is the
\* year, a hyphen and (year+1) mod 100 as two digits
C16_SeasonIsYearAndTwoDigits ==
  \A i \in 1..Len(seasons) : seasons[i] = ExpectedSeason(YearAt(i))

\* C16 (amended): the same for every year whose following year has four
\* digits, i.e. 999 <= year <= 9998
C16_SeasonOfFourDigitYears ==
  \A i \in 1..Len(seasons) :
    (999 <= YearAt(i) /\ YearAt(i) <= 9998) => seasons[i] = ExpectedSeason(YearAt(i))

C16_Season1999InTheFrames ==
  /\ GenDone
  /\ \E i \in 1..Len(seasons) :
       /\ YearAt(i) = 1999
       /\ seasons[i] = <<"1", "9", "9", "9", "-", "0", "0">>
       /\ seasons[i] \in SeasonsIn(frames.teams)

\* C17: no two rows of the team frame have the same team_abbreviation and season
C17_TeamAbbreviationSeasonUnique ==
  \A i, j \in 1..Len(frames.teams) :
    i < j => \/ frames.teams[i].team_abbreviation # frames.teams[j].team_abbreviation
             \/ frames.teams[i].season # frames.teams[j].season

C17_SameTeamInTwoSeasons ==
  /\ GenDone
  /\ \E i, j \in 1..Len(frames.teams) :
       /\ frames.teams[i].team_abbreviation = frames.teams[j].team_abbreviation
       /\ frames.teams[i].season # frames.teams[j].season

\* C18: the team_id of every row of the player frame is the id of a team row
\* with the player's season and team_abbreviation
C18_PlayerTeamIsATeamOfTheSeason ==
  \A i \in 1..Len(frames.players) :
    \E k \in 1..Len(frames.teams) :
      /\ frames.teams[k].team_id = frames.players[i].team_id
      /\ frames.teams[k].season = frames.players[i].season
      /\ frames.teams[k].team_abbreviation = frames.players[i].team_abbreviation

C18_LegendAndFillerInSecondSeason ==
  /\ GenDone
  /\ Len(seasons) = 2
  /\ \E i, j \in 1..Len(frames.players) :
       /\ frames.players[i].season = seasons[2]
       /\ frames.players[j].season = seasons[2]
       /\ frames.players[i].player_name = "Kevin Durant"
       /\ frames.players[i].team_abbreviation = "BKN"
       /\ frames.players[j].player_name = "Alex Johnson"

\* C19: the team rows of every generated season are exactly one row per
\* abbreviation of the historical table (25 teams) when the year is before
\* 2000 and of the modern table (30 teams) otherwise, each with the name,
\* city, conference and division the table gives
C19_TeamRowsAreTheEraTable ==
  GenDone =>
    \A i \in 1..Len(seasons) :
      LET tbl == IF YearAt(i) < 2000 THEN historical_teams ELSE modern_teams
          rows == {k \in 1..Len(frames.teams) : frames.teams[k].season = seasons[i]} IN
      /\ Len(tbl) = IF YearAt(i) < 2000 THEN NumHistoricalTeams ELSE NumModernTeams
      /\ Cardinality(rows) = Len(tbl)
      /\ \A e \in 1..Len(tbl) :
           Cardinality({k \in rows : frames.teams[k].team_abbreviation = tbl[e].abbrev}) = 1
      /\ \A k \in rows : \E e \in 1..Len(tbl) :
           /\ frames.teams[k].team_abbreviation = tbl[e].abbrev
           /\ frames.teams[k].team_name = tbl[e].name
           /\ frames.teams[k].team_city = tbl[e].city
           /\ frames.teams[k].conference = tbl[e].conference
           /\ frames.teams[k].division = tbl[e].division

C19_HistoricalThenModern ==
  /\ GenDone
  /\ start_year = 1999 /\ end_year = 2000
  /\ Len(frames.teams) = NumHistoricalTeams + NumModernTeams

\* the legendary players of the era bucket that contains year y
BucketLegends(y) ==
  IF 1980 <= y /\ y <= 1989 THEN legendary_players["1980s"]
  ELSE IF 1990 <= y /\ y <= 1999 THEN legendary_players["1990s"]
  ELSE IF 2000 <= y /\ y <= 2009 THEN legendary_players["2000s"]
  ELSE IF 2010 <= y /\ y <= 2019 THEN legendary_players["2010s"]
  ELSE IF 2020 <= y /\ y <= 2025 THEN legendary_players["2020s"]
  ELSE <<>>

\* C20: every generated season has one player row for each legendary player
\* of its year's bucket plus between 40 and 80 further rows, and the stat
\* frame has exactly one row per player row, with its player_id and season
C20_LegendsPlusFillersAndOneStatRowEach ==
  GenDone =>
    /\ \A i \in 1..Len(seasons) :
         LET rows == {k \in 1..Len(frames.players) : frames.players[k].season = seasons[i]}
             legends == BucketLegends(YearAt(i)) IN
         /\ Cardinality(rows) - Len(legends) \in MinExtra..MaxExtra
         /\ \A e \in 1..Len(legends) :
              \E k \in rows : frames.players[k].player_name = legends[e].name
    /\ Len(frames.stats) = Len(frames.players)
    /\ \A k \in 1..Len(frames.players) :
         /\ frames.stats[k].player_id = frames.players[k].player_id
         /\ frames.stats[k].season = frames.players[k].season
    /\ \A k \in 1..(Len(frames.players) - 1) :
         frames.players[k].player_id < frames.players[k + 1].player_id

C20_TwoBucketsBothEndsOfTheRange ==
  /\ GenDone
  /\ start_year = 2019 /\ end_year = 2020
  /\ Len(frames.players) =
       Len(BucketLegends(2019)) + MinExtra + Len(BucketLegends(2020)) + MaxExtra

\* C21: generating with start 2020 and end 2020 gives the single season
\* "2020-21", exactly 30 team rows, each an entry of the modern table, and a
\* player row for LeBron James with team abbreviation "LAL"
C21_Season2020Example ==
  (start_year = 2020 /\ end_year = 2020) =>
    /\ seasons = << <<"2", "0", "2", "0", "-", "2", "1">> >>
    /\ gpc # "raised"
    /\ GenDone =>
         /\ Len(frames.teams) = 30
         /\ \A k \in 1..Len(frames.teams) :
              /\ frames.teams[k].season = seasons[1]
              /\ \E e \in 1..Len(modern_teams) :
                   /\ frames.teams[k].team_abbreviation = modern_teams[e].abbrev
                   /\ frames.teams[k].team_name = modern_teams[e].name
                   /\ frames.teams[k].team_city = modern_teams[e].city
         /\ \E k \in 1..Len(frames.players) :
              /\ frames.players[k].player_name = "LeBron James"
              /\ frames.players[k].team_abbreviation = "LAL"
              /\ frames.players[k].season = seasons[1]

C21_Generated2020 ==
  /\ GenDone
  /\ start_year = 2020 /\ end_year = 2020
  /\ Len(frames.teams) = NumModernTeams
  /\ \E k \in 1..Len(frames.players) :
       /\ frames.players[k].player_name = "LeBron James"
       /\ frames.players[k].team_abbreviation = "LAL"

\* C24: in the frames of one run the team ids are 1..T and the player ids
\* 1..P in the order of the rows, without gap or repeat across seasons; so
\* no two team rows share (team_id, season), no two player rows share
\* (player_id, season), and the player_id of every stat row is the id of
\* exactly one player row
C24_IdsAreConsecutive ==
  GenDone =>
    /\ \A k \in 1..Len(frames.teams) : frames.teams[k].team_id = k
    /\ \A k \in 1..Len(frames.players) : frames.players[k].player_id = k
    /\ Len(frames.teams) = Len(all_teams)
    /\ Len(frames.players) = Len(all_players)
    /\ \A m \in 1..Len(frames.stats) :
         /\ frames.stats[m].player_id \in 1..Len(frames.players)
         /\ frames.players[frames.stats[m].player_id].player_id = frames.stats[m].player_id

C24_IdsRunOnIntoSecondSeason ==
  /\ GenDone
  /\ Len(seasons) = 2
  /\ frames.teams[Len(frames.teams)].season = seasons[2]
  /\ frames.teams[Len(frames.teams)].team_id = team_id_counter - 1
  /\ frames.teams[Len(frames.teams)].team_id > NumModernTeams
  /\ frames.players[Len(frames.players)].season = seasons[2]
  /\ frames.players[Len(frames.players)].player_id = player_id_counter - 1
  /\ frames.stats[Len(frames.stats)].player_id = player_id_counter - 1

\* C28: in every generated season, the row of each legendary player of the
\* year's bucket carries a team that is a member of the possible-teams list
\* of the player's entry in that bucket
C28_ChosenTeamIsListed ==
  GenDone =>
    \A i \in 1..Len(seasons) :
      LET legends == BucketLegends(YearAt(i)) IN
      \A e \in 1..Len(legends), k \in 1..Len(frames.players) :
        (frames.players[k].season = seasons[i] /\
         frames.players[k].player_name = legends[e].name) =>
          \E t \in 1..Len(legends[e].teams) :
            frames.players[k].team_abbreviation = legends[e].teams[t]

\* the load_all_data call has returned, by whichever return statement
Returned == lpc \in {"returned", "exited"}

\* C25: with clear_existing true, when clear_table returned False for a
\* table, no file mapped to that table is appended in the same call, and
\* the call's result is False
C25_FailedClearStopsAppend ==
  \A t \in Tables :
    (clear_existing /\ \E i \in 1..Len(log) : log[i] = Entry("clear_table", t, FALSE)) =>
      /\ \A f \in MappedFiles : file_mappings[f] = t => ~loaded(f)
      /\ Returned => result = "False"

\* C26: when connect succeeded, the connection is closed once load_all_data
\* has returned, and the close is the last thing done; when the file loop
\* was reached, the row counts are reported after every load_csv_to_table
\* call and directly before the close
C26_ClosedAndCountsBeforeClose ==
  (Returned /\ \E i \in 1..Len(log) : log[i] = Entry("connect", "", TRUE)) =>
    /\ conn = "closed"
    /\ Last(log) = Entry("close", "", TRUE)
    /\ Cardinality({i \in 1..Len(log) : log[i].op = "close"}) = 1
    /\ Last(counts).via = "loop" =>
         /\ log[Len(log) - 1] = Entry("get_table_counts", "", TRUE)
         /\ \A i \in 1..Len(log) :
              log[i].op \in {"load_csv_to_table", "clear_table"} => i < Len(log) - 1

\* the lines of a crontab text that mention the pipeline script
EntryLines(text) == {i \in 1..Len(text) : in_line("run_nba_pipeline.sh", text[i])}

\* C23: a setup_cron_job call on a crontab without an NBA automation entry
\* returns True and leaves the crontab with the comment line and one entry
\* of a schedule and the script path added at its end; after every
\* setup_cron_job call that did not fail to write the crontab, the crontab
\* holds exactly one entry
C23_SetupInstallsOneEntry ==
  (cron_op = "setup" /\ cron_ret # "False") =>
    /\ cron_ret = "True"
    /\ Cardinality(EntryLines(crontab)) = 1
    /\ ~in_text("run_nba_pipeline.sh", cron_before) =>
         \E schedule \in Schedules :
           crontab = cron_before \o <<NL, NbaComment, NL, cron_entry(schedule, script_path), NL>>

IsOtherLine(item) == item \in OtherLines

\* C27: after remove_cron_job returned True, the lines of the other jobs
\* are all still in the crontab, in the order they had
C27_RemoveKeepsOtherLines ==
  (cron_op = "remove" /\ cron_ret = "True") =>
    SelectSeq(crontab, IsOtherLine) = SelectSeq(cron_before, IsOtherLine)

\* made m and attempted a in tenths and percentage q in thousandths agree
\* up to the rounding of the three: some values that round to m and q have
\* a quotient that rounds to a
WithinRounding(m, a, q) ==
  /\ (2 * a + 1) * (2 * q + 1) >= 2000 * (2 * m - 1)
  /\ (2 * a - 1) * (2 * q - 1) <= 2000 * (2 * m + 1)

\* C22: in every stat row, for field goals, three-pointers and free throws,
\* the stored percentage is not zero and the stored attempted value is the
\* stored made value divided by the stored percentage, within the rounding
\* of the stored values
C22_AttemptedIsMadeOverPercentage ==
  stat_calls > 0 =>
    /\ stat.field_goal_percentage > 0
    /\ stat.three_point_percentage > 0
    /\ stat.free_throw_percentage > 0
    /\ WithinRounding(stat.field_goals_made, stat.field_goals_attempted,
                      stat.field_goal_percentage)
    /\ WithinRounding(stat.three_pointers_made, stat.three_pointers_attempted,
                      stat.three_point_percentage)
    /\ WithinRounding(stat.free_throws_made, stat.free_throws_attempted,
                      stat.free_throw_percentage)

C22_LowestThreePointPercentage ==
  /\ stat_calls > 0
  /\ stat_args.era = "1980s"
  /\ stat.three_point_percentage = 75
  /\ stat.three_pointers_made > 0
  /\ stat.three_pointers_attempted > 10 * stat.three_pointers_made

\* the tables a call with arguments a leaves when it starts from the literals
ExpectedBases(a) ==
  [position_bases_literal EXCEPT ![a.position] = superstar(@, a.player_name)]

ExpectedMults(a) ==
  [era_multipliers_literal EXCEPT ![a.era] = modern_boost(@, a.year)]

\* C29: the position template and the era multipliers a call works with are
\* those its own player_name, position, year and era give from the literal
\* tables, whatever calls were made before it
C29_NoCarryOverBetweenCalls ==
  stat_calls > 0 =>
    /\ position_bases = ExpectedBases(stat_args)
    /\ era_multipliers = ExpectedMults(stat_args)

C29_ScaledCallAfterScaledCall ==
  /\ stat_calls = 2
  /\ prior_scaling
  /\ stat_args.player_name = "LeBron James"
  /\ stat_args.year >= 2020
  /\ position_bases["SF"].points = 2600
  /\ era_multipliers["2020s"].points = 144

====
